---- MODULE Spec2Model ----
(***************************************************************************)
(* Excitation / ionisation equilibrium model of oracle                     *)
(* (src/oracle/models/equalibria.py).                                      *)
(*                                                                         *)
(* Numbers.  The program computes in floating point; the model computes    *)
(* in exact rationals [nan, num, den] (den > 0), with NaN kept as a value  *)
(* of its own: every comparison with NaN is false, as in IEEE arithmetic.  *)
(* Species codes are kept in tenths (26.0 -> 260, 26.1 -> 261), so that    *)
(* `species % 1` is `species % 10`.                                        *)
(*                                                                         *)
(* equalibrium_state reads the names `interpolator` and                    *)
(* `atomic_transitions` (lines 736, 756) that the module itself never      *)
(* binds; the model takes them as bound by the package to the photosphere  *)
(* interpolator and to the model's transition list.                        *)
(***************************************************************************)
EXTENDS Integers, Sequences, FiniteSets, TLC

VARIABLES
    atomic_transitions,  \* the transition table / list of the model
    metallicity,         \* the metallicity argument of equalibrium_state
    outlier_sigma_clip,  \* kwargs["outlier_sigma_clip"], or "unset"
    eq_pc,               \* position inside equalibrium_state
    eq_i,                \* index of the transition the fitting loop is at
    rec,                 \* atomic_transitions_rec
    neutral_lines,       \* boolean mask, as the set of selected rows
    ionised_lines,       \* boolean mask, as the set of selected rows
    use_lines,           \* boolean mask, as the set of selected rows
    outliers_removed,    \* the loop's flag
    excitation_slope,    \* linregress result of the last diagnostics
    line_strength_slope, \* linregress result of the last diagnostics
    state,               \* the 4-vector of the last diagnostics
    initial_state,       \* diagnostics before outlier removal
    final_state,         \* diagnostics the loop ended with
    eq_error,            \* exception that left equalibrium_state, or "none"
    n_diagnostics,       \* history: times the diagnostics were computed
    n_flagging,          \* history: times the flagging step ran
    degenerate_seen,     \* history: a diagnostics pass met a degenerate regression
    data,                \* the observed spectra: one [lo, hi] dispersion range each
    supplied,            \* which of the stellar parameters the caller gave
    wavelength_region,   \* the +/- window around each transition
    tolerance_kwarg,     \* kwargs["wavelength_tolerance"] as the caller passed it
    bounds_kwarg,        \* common_bounds: kwargs["bounds"], or the default mapping
    continuum_order,     \* self._continuum_order(...) of the configuration
    outlier_modeling,    \* keyword argument
    max_outlier_profiles,\* keyword argument
    fit_pc,              \* position inside fit_atomic_transitions
    fit_k,               \* position in transition_indices
    fit_j,               \* the j of the fit / augment loop
    profile,             \* the model being fitted to the current transition
    fit_error,           \* exception that left fit_atomic_transitions, or "none"
    fit_written,         \* history: rows whose equivalent width this pass wrote
    transitions_table,   \* the record table estimate_stellar_parameters works on
    theta,               \* the trial point the root-finder evaluates
    trial_abundances,    \* what the abundance call returned at the trial point
    objective,           \* what state_function returned last
    nfev,                \* evaluations of state_function so far
    solve_pc,            \* position inside estimate_stellar_parameters
    solve_error,         \* exception that left estimate_stellar_parameters, or "none"
    abundance_failed,    \* history: the last evaluation's abundance call raised
    repeated,            \* history: the last evaluation repeated the one before
    config,              \* the model configuration the constructor is given
    colnames,            \* column names of the table being initialised, in order
    coltypes,            \* dtype of each derived column the table has
    colvalues,           \* what each derived column the table has holds
    load_pc,             \* position inside the constructor
    load_column,         \* position in the loop over the required columns
    load_error,          \* exception that left the constructor
    benchmarks,          \* the rows of benchmarks.csv the batch script reads
    star,                \* index of the benchmark the script's loop is at
    started,             \* history: benchmarks whose analysis began
    failed_star,         \* history: the benchmark whose analysis raised, or 0
    batch_pc,            \* position inside the batch script
    batch_error,         \* exception that left the batch script, or "none"
    results_written,     \* results.md has been written
    sampling_data,       \* minimum_pixel_sampling: the disp array of each channel
    sampling_wavelength, \* minimum_pixel_sampling: the wavelength asked for
    sampling_i,          \* minimum_pixel_sampling: the i of its loop
    pixel_size,          \* minimum_pixel_sampling: the local of that name
    channel_indices,     \* minimum_pixel_sampling: the local of that name
    sampling_pc,         \* position inside minimum_pixel_sampling
    sampling_error       \* exception that left minimum_pixel_sampling, or "none"

eqVars == << metallicity, outlier_sigma_clip, eq_pc, eq_i, rec, neutral_lines,
             ionised_lines, use_lines, outliers_removed, excitation_slope,
             line_strength_slope, state, initial_state, final_state, eq_error,
             n_diagnostics, n_flagging, degenerate_seen >>

fitVars == << data, supplied, wavelength_region, tolerance_kwarg, bounds_kwarg,
              continuum_order,
              outlier_modeling, max_outlier_profiles, fit_pc, fit_k, fit_j,
              profile, fit_error, fit_written >>

solveVars == << transitions_table, theta, trial_abundances, objective, nfev, solve_pc,
                solve_error, abundance_failed, repeated >>

loadVars == << config, colnames, coltypes, colvalues, load_pc, load_column,
               load_error >>

\* what equalibrium_state leaves alone
batchVars == << benchmarks, star, started, failed_star, batch_pc, batch_error,
                results_written >>

samplingVars == << sampling_data, sampling_wavelength, sampling_i, pixel_size,
                   channel_indices, sampling_pc, sampling_error >>

notEqVars == << fitVars, solveVars, loadVars, batchVars, samplingVars >>

\* what fit_atomic_transitions leaves alone
notFitVars == << eqVars, solveVars, loadVars, batchVars, samplingVars >>

vars == << atomic_transitions, eqVars, fitVars, solveVars, loadVars, batchVars, samplingVars,
          samplingVars >>

-----------------------------------------------------------------------------
(* Bounds of the model *)

\* abundances the evaluator may return for a line: 0 .. MaxAbundance
MaxAbundance == 2

\* max_outlier_profiles is drawn from 0 .. MaxOutlierProfiles
MaxOutlierProfiles == 2

\* the fit / augment loop is followed for at most MaxFitRounds fits of a line
MaxFitRounds == 3

-----------------------------------------------------------------------------
(* Numbers *)

NaN == [nan |-> TRUE, num |-> 0, den |-> 1]

Rat(n, d) == [nan |-> FALSE, num |-> n, den |-> d]

Num(n) == Rat(n, 1)

IsFinite(a) == ~a.nan

\* a - b; NaN if either is
RatSub(a, b) ==
    IF a.nan \/ b.nan THEN NaN
    ELSE Rat(a.num * b.den - b.num * a.den, a.den * b.den)

\* a == b of the program: false when either is NaN
RatEq(a, b) == ~a.nan /\ ~b.nan /\ a.num * b.den = b.num * a.den

\* a > b of the program: false when either is NaN
RatGt(a, b) == ~a.nan /\ ~b.nan /\ a.num * b.den > b.num * a.den

Abs(n) == IF n < 0 THEN -n ELSE n

RECURSIVE Sum(_, _)
Sum(f, S) ==
    IF S = {} THEN 0
    ELSE LET i == CHOOSE j \in S : TRUE IN f[i] + Sum(f, S \ {i})

\* natural logarithm of a positive integer, rounded down (np.log, fixed point)
RECURSIVE Ln(_)
Ln(v) == IF v * 1000 < 2718 THEN 0 ELSE 1 + Ln((v * 1000) \div 2718)

\* array.mean() over the selected rows: NaN for an empty selection
Mean(f, S) == IF S = {} THEN NaN ELSE Rat(Sum(f, S), Cardinality(S))

-----------------------------------------------------------------------------
(* The line list *)

\* The atomic transitions the model is configured with (Fe I and Fe II lines).
Catalogue ==
    << [wavelength |-> 5001, species |-> 260, excitation_potential |-> 1, loggf |-> -2],
       [wavelength |-> 5012, species |-> 260, excitation_potential |-> 2, loggf |-> -1],
       [wavelength |-> 5023, species |-> 261, excitation_potential |-> 3, loggf |-> -3],
       [wavelength |-> 5025, species |-> 260, excitation_potential |-> 0, loggf |-> -2] >>

Rows == 1 .. Len(Catalogue)

\* equivalent widths (milliAngstrom) a profile fit may report
FittedWidths == {3, 10, 27, 250}

\* species % 1 == 0
IsNeutral(species) == species % 10 = 0

\* mutant of IsIonised: a fraction of one tenth does not count
IsIonised_AboveTenth(species) == species % 10 > 1

\* species % 1 > 0
IsIonised(species) == species % 10 > 0

\* atmospheres.solar_abundance
SolarAbundance(species) == IF species \div 10 = 26 THEN 7 ELSE 0

-----------------------------------------------------------------------------
(* equalibrium_state: the pure parts *)

KwUnset == [kind |-> "unset", num |-> 0, den |-> 1]
KwNone  == [kind |-> "None", num |-> 0, den |-> 1]
KwNaN   == [kind |-> "nan", num |-> 0, den |-> 1]
KwInf   == [kind |-> "inf", num |-> 1, den |-> 1]
KwNum(n, d) == [kind |-> "num", num |-> n, den |-> d]

\* values a caller may pass as outlier_sigma_clip ("unset": not passed)
SigmaClips ==
    { KwUnset, KwNone, KwNaN, KwInf, KwNum(-1, 1), KwNum(0, 1), KwNum(1, 1),
      KwNum(2, 1) }

\* the default of kwargs.pop("outlier_sigma_clip", 3)
DefaultOutlierSigmaClip == 3

\* kwargs.pop("outlier_sigma_clip", 3)
OutlierLimit(kw) ==
    IF kw.kind = "unset" THEN KwNum(DefaultOutlierSigmaClip, 1) ELSE kw

\* mutant of NonPositive: 0 > outlier_limit
NonPositive_Strict(limit) == 0 > limit.num

\* 0 >= outlier_limit
NonPositive(limit) == 0 >= limit.num

\* outlier_limit is None or not np.isfinite(outlier_limit) or 0 >= outlier_limit
SkipsRejection(limit) ==
    \/ limit.kind = "None"
    \/ limit.kind \in {"nan", "inf"}
    \/ (limit.kind = "num" /\ NonPositive(limit))

\* the default filter_transition: lambda x: (200 > x.equivalent_width > 5)
Filtered(ew) == ~ew.nan /\ 200 * ew.den > ew.num /\ ew.num > 5 * ew.den

\* np.log(equivalent_width / wavelength) of one row
ReducedEquivalentWidth(row) ==
    IF row.equivalent_width.nan \/ row.equivalent_width.num <= 0 THEN NaN
    ELSE Num(Ln(row.equivalent_width.num) - Ln(row.wavelength))

\* stats.linregress(x, y) over the selected rows, kept as the sums it is made
\* of: slope = sxy / sxx, intercept = (sy * sxx - sxy * sx) / (n * sxx).
\* Fewer than two points, or no spread in x, give a NaN slope and intercept.
LinRegress(x, y, S) ==
    LET n   == Cardinality(S)
        sx  == Sum(x, S)
        sy  == Sum(y, S)
        sxx == n * Sum([i \in DOMAIN x |-> x[i] * x[i]], S) - sx * sx
        sxy == n * Sum([i \in DOMAIN x |-> x[i] * y[i]], S) - sx * sy
    IN  [nan |-> (n < 2 \/ sxx = 0), n |-> n, sx |-> sx, sy |-> sy,
         sxx |-> sxx, sxy |-> sxy]

\* linregress(...)[0]
Slope(r) == IF r.nan THEN NaN ELSE Rat(r.sxy, r.sxx)

\* np.abs(slope * x + intercept - y), times n * sxx (> 0) to stay in integers
Difference(r, xi, yi) == Abs(r.sxx * (r.n * yi - r.sy) - r.sxy * (r.n * xi - r.sx))

\* (differences / np.std(differences))[i] > outlier_limit, for a finite
\* positive limit: d_i > limit * std  <=>  d_i^2 > limit^2 * var, with
\* var = (m * sum d^2 - (sum d)^2) / m^2 over the m used rows.  A zero spread
\* gives inf (flagged) for d_i > 0 and NaN (not flagged) for d_i = 0.
SigmaExceeds(d, S, i, limit) ==
    LET m  == Cardinality(S)
        s1 == Sum(d, S)
        s2 == Sum([j \in DOMAIN d |-> d[j] * d[j]], S)
    IN  m * m * d[i] * d[i] * limit.den * limit.den
            > limit.num * limit.num * (m * s2 - s1 * s1)

\* mutant of EitherExceeds: & for |
EitherExceeds_Both(a, b) == a /\ b

\* (excitation_sigma > outlier_limit) | (line_strength_sigma > outlier_limit)
EitherExceeds(a, b) == a \/ b

AbundanceOf(table) == [i \in DOMAIN table |-> table[i].abundance.num]

ExcitationOf(table) == [i \in DOMAIN table |-> table[i].excitation_potential]

ReducedWidthOf(table) == [i \in DOMAIN table |-> ReducedEquivalentWidth(table[i]).num]

\* lines 899-913: the rows of `use` whose normalised deviation from either
\* regression line exceeds the limit (a NaN regression exceeds nowhere)
OutlierMask(table, use, exc, ls, limit) ==
    LET dExc == [i \in DOMAIN table |->
                    Difference(exc, ExcitationOf(table)[i], AbundanceOf(table)[i])]
        dLs  == [i \in DOMAIN table |->
                    Difference(ls, ReducedWidthOf(table)[i], AbundanceOf(table)[i])]
    IN  { i \in use :
            EitherExceeds(~exc.nan /\ SigmaExceeds(dExc, use, i, limit),
                          ~ls.nan /\ SigmaExceeds(dLs, use, i, limit)) }

\* mutant of WriteOutlierMask: the mask is written to a copy
\* (atomic_transitions_rec[use_lines]["is_outlier"] = mask)
WriteOutlierMask_OnCopy(table, use, mask) == table

\* atomic_transitions_rec["is_outlier"][use_lines] = mask
WriteOutlierMask(table, use, mask) ==
    [i \in DOMAIN table |->
        IF i \in use THEN [table[i] EXCEPT !.is_outlier = (i \in mask)]
        ELSE table[i]]

\* mutant of UseLines: the outlier flag is not looked at
UseLines_IgnoringOutliers(table) == { i \in DOMAIN table : table[i].is_filtered }

\* mutant of UseLines: the filter is not looked at
UseLines_IgnoringFilter(table) == { i \in DOMAIN table : ~table[i].is_outlier }

\* is_filtered.astype(bool) * ~is_outlier.astype(bool)
UseLines(table) == { i \in DOMAIN table : table[i].is_filtered /\ ~table[i].is_outlier }

\* abundances[neutral].mean() - abundances[ionised].mean()
IonisationState(table, neutral, ionised) ==
    RatSub(Mean(AbundanceOf(table), neutral), Mean(AbundanceOf(table), ionised))

\* (abundance - (solar_abundance(species) + metallicity)).mean() over `use`
AbundanceState(table, use, mh) ==
    Mean([i \in DOMAIN table |->
            table[i].abundance.num - (SolarAbundance(table[i].species) + mh)], use)

\* np.array([excitation_slope[0], ionisation_state, abundance_state,
\*           line_strength_slope[0]])
StateVector(table, use, neutral, ionised, exc, ls, mh) ==
    << Slope(exc), IonisationState(table, neutral, ionised),
       AbundanceState(table, use, mh), Slope(ls) >>

HasNaN(v) == \E k \in DOMAIN v : v[k].nan

-----------------------------------------------------------------------------
(* equalibrium_state: the steps *)

Unset == << >>

NoProfile == [components |-> << >>, fixed |-> {}, bounds |-> << >>, tied |-> << >>,
              centre_off |-> FALSE]

NoRegression == [nan |-> TRUE, n |-> 0, sx |-> 0, sy |-> 0, sxx |-> 0, sxy |-> 0]

\* the transition table the model starts from: nothing measured yet
InitialTransitions ==
    [i \in Rows |->
        [wavelength |-> Catalogue[i].wavelength,
         species |-> Catalogue[i].species,
         excitation_potential |-> Catalogue[i].excitation_potential,
         loggf |-> Catalogue[i].loggf,
         equivalent_width |-> NaN,
         clean |-> TRUE,
         abundance |-> NaN]]

\* fit_atomic_transitions is not running
FitIdle ==
    /\ data = << >>
    /\ supplied = {}
    /\ wavelength_region = 0
    /\ tolerance_kwarg = 0
    /\ bounds_kwarg = << >>
    /\ continuum_order = -1
    /\ outlier_modeling = FALSE
    /\ max_outlier_profiles = 0
    /\ fit_pc = "idle"
    /\ fit_k = 0
    /\ fit_j = 0
    /\ profile = NoProfile
    /\ fit_error = "none"
    /\ fit_written = {}

NoTrial == [metallicity |-> 0, in_grid |-> TRUE]

\* estimate_stellar_parameters is not running
SolveIdle ==
    /\ transitions_table = Unset
    /\ theta = NoTrial
    /\ trial_abundances = Unset
    /\ objective = Unset
    /\ nfev = 0
    /\ solve_pc = "idle"
    /\ solve_error = "none"
    /\ abundance_failed = FALSE
    /\ repeated = FALSE

NoConfig == [source |-> "absent", readable |-> FALSE, columns |-> {},
             dtypes |-> << >>, values |-> << >>, custom_mask |-> {}]

NoError == [type |-> "none", message |-> "none", column |-> ""]

\* the constructor is not running
LoadIdle ==
    /\ config = NoConfig
    /\ colnames = << >>
    /\ coltypes = << >>
    /\ colvalues = << >>
    /\ load_pc = "idle"
    /\ load_column = 0
    /\ load_error = NoError

\* minimum_pixel_sampling is not running
SamplingIdle ==
    /\ sampling_data = << >>
    /\ sampling_wavelength = 0
    /\ sampling_i = 0
    /\ pixel_size = NaN
    /\ channel_indices = << >>
    /\ sampling_pc = "idle"
    /\ sampling_error = "none"

\* the batch script is not running
BatchIdle ==
    /\ benchmarks = << >>
    /\ star = 0
    /\ started = {}
    /\ failed_star = 0
    /\ batch_pc = "idle"
    /\ batch_error = "none"
    /\ results_written = FALSE

\* metallicities equalibrium_state is called with
Metallicities == {0}

EqInit ==
    /\ atomic_transitions = InitialTransitions
    /\ metallicity \in Metallicities
    /\ outlier_sigma_clip \in SigmaClips
    /\ eq_pc = "fit_profiles"
    /\ eq_i = 1
    /\ rec = Unset
    /\ neutral_lines = {}
    /\ ionised_lines = {}
    /\ use_lines = {}
    /\ outliers_removed = FALSE
    /\ excitation_slope = NoRegression
    /\ line_strength_slope = NoRegression
    /\ state = Unset
    /\ initial_state = Unset
    /\ final_state = Unset
    /\ eq_error = "none"
    /\ n_diagnostics = 0
    /\ n_flagging = 0
    /\ degenerate_seen = FALSE
    /\ FitIdle
    /\ SolveIdle
    /\ LoadIdle
    /\ BatchIdle
    /\ SamplingIdle

\* lines 778-780: fit_profile measured the transition
FitProfile ==
    /\ eq_pc = "fit_profiles"
    /\ eq_i <= Len(atomic_transitions)
    /\ \E ew \in FittedWidths :
          atomic_transitions' =
              [atomic_transitions EXCEPT ![eq_i].equivalent_width = Num(ew)]
    /\ eq_i' = eq_i + 1
    /\ UNCHANGED << notEqVars, metallicity, outlier_sigma_clip, eq_pc, rec, neutral_lines,
                    ionised_lines, use_lines, outliers_removed, excitation_slope,
                    line_strength_slope, state, initial_state, final_state,
                    eq_error, n_diagnostics, n_flagging, degenerate_seen >>

\* lines 782-783: fit_profile raised ValueError; the transition is skipped
FitProfileSkipped ==
    /\ eq_pc = "fit_profiles"
    /\ eq_i <= Len(atomic_transitions)
    /\ eq_i' = eq_i + 1
    /\ UNCHANGED << notEqVars, atomic_transitions, metallicity, outlier_sigma_clip, eq_pc, rec,
                    neutral_lines, ionised_lines, use_lines, outliers_removed,
                    excitation_slope, line_strength_slope, state, initial_state,
                    final_state, eq_error, n_diagnostics, n_flagging,
                    degenerate_seen >>

\* lines 792-795
IsFiltered(table) == { i \in DOMAIN table : Filtered(table[i].equivalent_width) }

\* lines 818-828: the record table, given the abundances returned for the
\* filtered rows
Records(table, abundances) ==
    [i \in DOMAIN table |->
        [wavelength |-> table[i].wavelength,
         species |-> table[i].species,
         excitation_potential |-> table[i].excitation_potential,
         loggf |-> table[i].loggf,
         equivalent_width |-> table[i].equivalent_width,
         abundance |-> IF i \in IsFiltered(table) THEN Num(abundances[i]) ELSE NaN,
         is_filtered |-> (i \in IsFiltered(table)),
         is_outlier |-> FALSE]]

\* lines 788-833: filter, abundances of the filtered rows, record table, masks
BuildRecords ==
    /\ eq_pc = "fit_profiles"
    /\ eq_i > Len(atomic_transitions)
    /\ \E abundances \in [IsFiltered(atomic_transitions) -> 0 .. MaxAbundance] :
          rec' = Records(atomic_transitions, abundances)
    /\ neutral_lines' = { i \in DOMAIN rec' : IsNeutral(rec'[i].species) }
    /\ ionised_lines' = DOMAIN rec' \ neutral_lines'
    /\ outliers_removed' = FALSE
    /\ eq_pc' = "diagnostics"
    /\ UNCHANGED << notEqVars, atomic_transitions, metallicity, outlier_sigma_clip, eq_i,
                    use_lines, excitation_slope, line_strength_slope, state,
                    initial_state, final_state, eq_error, n_diagnostics,
                    n_flagging, degenerate_seen >>

\* lines 811-813: the abundance evaluator raised (point outside the grid)
AbundancesRaise ==
    /\ eq_pc = "fit_profiles"
    /\ eq_i > Len(atomic_transitions)
    /\ eq_pc' = "raised"
    /\ eq_error' = "ValueError"
    /\ UNCHANGED << notEqVars, atomic_transitions, metallicity, outlier_sigma_clip, eq_i, rec,
                    neutral_lines, ionised_lines, use_lines, outliers_removed,
                    excitation_slope, line_strength_slope, state, initial_state,
                    final_state, n_diagnostics, n_flagging, degenerate_seen >>

\* lines 838-873: masks, the two regressions, the state vector
Diagnostics ==
    /\ eq_pc = "diagnostics"
    /\ use_lines' = UseLines(rec)
    /\ neutral_lines' = neutral_lines \cap use_lines'
    /\ ionised_lines' = ionised_lines \cap use_lines'
    /\ excitation_slope' =
          LinRegress(ExcitationOf(rec), AbundanceOf(rec), neutral_lines')
    /\ line_strength_slope' =
          LinRegress(ReducedWidthOf(rec), AbundanceOf(rec), neutral_lines')
    /\ state' = StateVector(rec, use_lines', neutral_lines', ionised_lines',
                            excitation_slope', line_strength_slope', metallicity)
    /\ n_diagnostics' = n_diagnostics + 1
    /\ degenerate_seen' =
          (degenerate_seen \/ excitation_slope'.nan \/ line_strength_slope'.nan)
    /\ eq_pc' = "branch"
    /\ UNCHANGED << notEqVars, atomic_transitions, metallicity, outlier_sigma_clip, eq_i, rec,
                    outliers_removed, initial_state, final_state, eq_error,
                    n_flagging >>

\* lines 845, 863: a linregress that rejects empty input raises instead of
\* returning NaN
LinregressRaises ==
    /\ eq_pc = "diagnostics"
    /\ neutral_lines \cap UseLines(rec) = {}
    /\ use_lines' = UseLines(rec)
    /\ neutral_lines' = neutral_lines \cap use_lines'
    /\ ionised_lines' = ionised_lines \cap use_lines'
    /\ n_diagnostics' = n_diagnostics + 1
    /\ degenerate_seen' = TRUE
    /\ eq_pc' = "raised"
    /\ eq_error' = "ValueError"
    /\ UNCHANGED << notEqVars, atomic_transitions, metallicity, outlier_sigma_clip, eq_i, rec,
                    outliers_removed, excitation_slope, line_strength_slope, state,
                    initial_state, final_state, n_flagging >>

\* line 875: if outliers_removed
AtFinalState == eq_pc = "branch" /\ outliers_removed

\* lines 880-887: else, with a limit that asks for no removal
AtNoRejection ==
    /\ eq_pc = "branch"
    /\ ~outliers_removed
    /\ SkipsRejection(OutlierLimit(outlier_sigma_clip))

\* lines 880-887: else, with a limit to clip at
AtFlagOutliers ==
    /\ eq_pc = "branch"
    /\ ~outliers_removed
    /\ ~SkipsRejection(OutlierLimit(outlier_sigma_clip))

\* lines 875-878: the refit is the final state
FinalState ==
    /\ AtFinalState
    /\ final_state' = state
    /\ eq_pc' = "return"
    /\ UNCHANGED << notEqVars, atomic_transitions, metallicity, outlier_sigma_clip, eq_i, rec,
                    neutral_lines, ionised_lines, use_lines, outliers_removed,
                    excitation_slope, line_strength_slope, state, initial_state,
                    eq_error, n_diagnostics, n_flagging, degenerate_seen >>

\* lines 880-890: no outlier removal asked for
NoRejection ==
    /\ AtNoRejection
    /\ initial_state' = state
    /\ final_state' = state
    /\ outliers_removed' = FALSE
    /\ eq_pc' = "return"
    /\ UNCHANGED << notEqVars, atomic_transitions, metallicity, outlier_sigma_clip, eq_i, rec,
                    neutral_lines, ionised_lines, use_lines, excitation_slope,
                    line_strength_slope, state, eq_error, n_diagnostics,
                    n_flagging, degenerate_seen >>

\* mutant of RemovedAfterFlagging: the flag is never set
RemovedAfterFlagging_Forgotten == FALSE

\* line 920: outliers_removed = True
RemovedAfterFlagging == TRUE

\* lines 880-921: flag the outliers, then go round the loop once more
FlagOutliers ==
    /\ AtFlagOutliers
    /\ initial_state' = state
    /\ rec' = WriteOutlierMask(rec, use_lines,
                  OutlierMask(rec, use_lines, excitation_slope, line_strength_slope,
                              OutlierLimit(outlier_sigma_clip)))
    /\ outliers_removed' = RemovedAfterFlagging
    /\ n_flagging' = n_flagging + 1
    /\ eq_pc' = "diagnostics"
    /\ UNCHANGED << notEqVars, atomic_transitions, metallicity, outlier_sigma_clip, eq_i,
                    neutral_lines, ionised_lines, use_lines, excitation_slope,
                    line_strength_slope, state, final_state, eq_error,
                    n_diagnostics, degenerate_seen >>

\* lines 1012-1014
ReturnState ==
    /\ eq_pc = "return"
    /\ eq_pc' = "returned"
    /\ UNCHANGED << notEqVars, atomic_transitions, metallicity, outlier_sigma_clip, eq_i, rec,
                    neutral_lines, ionised_lines, use_lines, outliers_removed,
                    excitation_slope, line_strength_slope, state, initial_state,
                    final_state, eq_error, n_diagnostics, n_flagging,
                    degenerate_seen >>

EqNext ==
    \/ FitProfile
    \/ FitProfileSkipped
    \/ BuildRecords
    \/ AbundancesRaise
    \/ Diagnostics
    \/ LinregressRaises
    \/ FinalState
    \/ NoRejection
    \/ FlagOutliers
    \/ ReturnState

SpecEq == EqInit /\ [][EqNext]_vars

-----------------------------------------------------------------------------
(* Properties of equalibrium_state *)

EqDone == eq_pc \in {"returned", "raised"}

Outliers == IF rec = Unset THEN {} ELSE { i \in DOMAIN rec : rec[i].is_outlier }

\* steps equalibrium_state still has before it at most
EqRank ==
    CASE eq_pc = "fit_profiles" -> 7 + (Len(atomic_transitions) + 1 - eq_i)
      [] eq_pc = "diagnostics" -> IF outliers_removed THEN 3 ELSE 5
      [] eq_pc = "branch" -> IF outliers_removed THEN 2 ELSE 4
      [] eq_pc = "return" -> 1
      [] OTHER -> 0

\* C1: the outlier-rejection loop is a single pass.  In every state the
\* diagnostics have been computed at most twice and the flagging step has run
\* at most once, a second diagnostics pass only follows a flagging step, and
\* once the flagging step has run its branch is never taken again; one of the
\* three branches of the loop body is always open, and every step of
\* equalibrium_state lowers a natural-valued rank, so the loop terminates.
C1_SinglePass ==
    /\ [](/\ n_diagnostics <= 2
          /\ n_flagging <= 1
          /\ (n_diagnostics = 2 => n_flagging = 1)
          /\ (n_flagging = 1 => ~AtFlagOutliers)
          /\ (eq_pc = "branch" => AtFinalState \/ AtNoRejection \/ AtFlagOutliers))
    /\ [][EqRank' < EqRank]_vars

\* the loop went round twice: initial fit, flagging, refit, return
C1_Witness ==
    /\ eq_pc = "returned"
    /\ n_diagnostics = 2
    /\ n_flagging = 1
    /\ Outliers # {}

\* the threshold is non-positive, non-finite or None
ThresholdAbsent(kw) == kw.kind \in {"None", "nan", "inf"} \/ (kw.kind = "num" /\ kw.num <= 0)

RejectionSkipped ==
    /\ n_flagging = 0
    /\ Outliers = {}
    /\ n_diagnostics <= 1
    /\ (eq_pc \in {"return", "returned"} =>
           /\ n_diagnostics = 1
           /\ state = initial_state
           /\ final_state = initial_state)

\* C2 as claimed: a threshold that is non-positive, non-finite or not passed
\* by the caller skips rejection: no flagging step, no outlier, the
\* diagnostics computed once, the returned state the initial diagnostics.
C2_AsClaimed ==
    (ThresholdAbsent(outlier_sigma_clip) \/ outlier_sigma_clip.kind = "unset")
        => RejectionSkipped

\* C2 amended: a threshold that is non-positive, non-finite or passed as None
\* skips rejection (no flagging step, no outlier, the diagnostics computed
\* once, the returned state the initial diagnostics); a threshold the caller
\* does not pass is the default 3, and the flagging step and the refit run.
C2_SkipsRejection ==
    /\ (ThresholdAbsent(outlier_sigma_clip) => RejectionSkipped)
    /\ (outlier_sigma_clip.kind = "unset" /\ eq_pc = "returned" =>
           n_flagging = 1 /\ n_diagnostics = 2)

\* rejection skipped on a table where a threshold of 1 would have flagged lines
C2_Witness ==
    /\ eq_pc = "returned"
    /\ outlier_sigma_clip = KwNone
    /\ OutlierMask(rec, use_lines, excitation_slope, line_strength_slope,
                   KwNum(1, 1)) # {}

\* the rows a second rejection pass with the same threshold would flag among
\* the lines that survived the first: their deviations from the refitted lines
SecondPassMask ==
    OutlierMask(rec, use_lines, excitation_slope, line_strength_slope,
                OutlierLimit(outlier_sigma_clip))

Deviation(r, xi, yi) ==
    Abs(r.n * r.sxy * xi + r.sy * r.sxx - r.sxy * r.sx - r.n * r.sxx * yi)

\* deviation i of the set d over S, divided by the standard deviation of the
\* set, exceeds limit: d_i / sqrt(sum_j (d_j - mean)^2 / m) > limit
NormalisedDeviationExceeds(d, S, i, limit) ==
    LET m  == Cardinality(S)
        s1 == Sum(d, S)
        ss == Sum([j \in DOMAIN d |-> (m * d[j] - s1) * (m * d[j] - s1)], S)
    IN  m * m * m * d[i] * d[i] * limit.den * limit.den > limit.num * limit.num * ss

ShouldBeFlagged(i) ==
    LET limit == OutlierLimit(outlier_sigma_clip)
        dExc  == [j \in DOMAIN rec |->
                    Deviation(excitation_slope, rec[j].excitation_potential,
                              rec[j].abundance.num)]
        dLs   == [j \in DOMAIN rec |->
                    Deviation(line_strength_slope,
                              ReducedEquivalentWidth(rec[j]).num,
                              rec[j].abundance.num)]
    IN  \/ ~excitation_slope.nan /\ NormalisedDeviationExceeds(dExc, use_lines, i, limit)
        \/ ~line_strength_slope.nan /\ NormalisedDeviationExceeds(dLs, use_lines, i, limit)

JustFlagged == eq_pc = "diagnostics" /\ n_flagging = 1

\* C4: right after the flagging step, a line is flagged as an outlier if and
\* only if it was used and its absolute deviation from the excitation
\* regression line, divided by the standard deviation of those deviations,
\* exceeds the threshold, or the same holds for the reduced-equivalent-width
\* regression line; a line with both at or below the threshold is not flagged.
C4_FlaggedIffExceeds ==
    JustFlagged =>
        \A i \in DOMAIN rec :
            rec[i].is_outlier <=> (i \in use_lines /\ ShouldBeFlagged(i))

\* a flagging step that flagged one used line and kept another
C4_Witness ==
    /\ JustFlagged
    /\ ~excitation_slope.nan
    /\ ~line_strength_slope.nan
    /\ \E i, j \in use_lines : rec[i].is_outlier /\ ~rec[j].is_outlier

\* C5: a degenerate regression (fewer than two neutral lines used, or no
\* spread in their excitation potentials or reduced equivalent widths) never
\* ends in a state vector with a NaN slope returned to the caller: the
\* evaluation fails instead.
C5_NoNaNReturned ==
    ~(eq_pc = "returned" /\ degenerate_seen /\ (state[1].nan \/ state[4].nan))

-----------------------------------------------------------------------------
(* fit_atomic_transitions *)

\* equalibrium_state is not running
EqIdle ==
    /\ metallicity = 0
    /\ outlier_sigma_clip = KwUnset
    /\ eq_pc = "idle"
    /\ eq_i = 0
    /\ rec = Unset
    /\ neutral_lines = {}
    /\ ionised_lines = {}
    /\ use_lines = {}
    /\ outliers_removed = FALSE
    /\ excitation_slope = NoRegression
    /\ line_strength_slope = NoRegression
    /\ state = Unset
    /\ initial_state = Unset
    /\ final_state = Unset
    /\ eq_error = "none"
    /\ n_diagnostics = 0
    /\ n_flagging = 0
    /\ degenerate_seen = FALSE

StellarParameters == {"effective_temperature", "surface_gravity", "metallicity"}

\* observed spectra the model is run on, each channel by its dispersion range
DataSets ==
    { << [lo |-> 5000, hi |-> 5030] >>,
      << [lo |-> 5010, hi |-> 5024], [lo |-> 5020, hi |-> 5040] >> }

\* "clean" columns of the table: every line clean, or one line marked blended
CleanColumns ==
    { c \in [Rows -> BOOLEAN] : Cardinality({ i \in Rows : ~c[i] }) <= 1 }

\* wavelength_region values callers use (Angstrom)
WavelengthRegions == {2, 12}

\* wavelength_tolerance values callers pass (Angstrom); the default is 0
WavelengthTolerances == {0, -1}

\* continuum orders of the configuration (-1: no continuum)
ContinuumOrders == {-1, 0}

\* what one run of the fitter may end with for the primary component:
\* amplitude (1/100), stddev (1/1000 Angstrom), and whether the fitted profile
\* is more than 5 per cent off the data at the line centre
FitOutcomes ==
    { [amplitude |-> 50, stddev |-> 50, centre_off |-> FALSE],
      [amplitude |-> 20, stddev |-> 50, centre_off |-> TRUE],
      [amplitude |-> 50, stddev |-> 300, centre_off |-> FALSE] }

\* the default common_bounds["stddev"][1], 0.3 Angstrom, in 1/1000
StddevUpperBound == 300

\* the default common_bounds["amplitude"][1], 1, in 1/100
AmplitudeUpperBound == 100

\* lines 260-263: the mapping used when the caller passes no bounds
DefaultBounds ==
    [prefix \in {"stddev", "amplitude"} |->
        IF prefix = "stddev" THEN << 0, StddevUpperBound >>
        ELSE << 0, AmplitudeUpperBound >>]

\* an upper bound on stddev a caller may pass, 0.05 Angstrom, in 1/1000
NarrowStddev == 50

\* line 260: kwargs.pop("bounds", default): the default mapping, a mapping
\* that bounds stddev only, and mappings with a key for the line centre
BoundsKwargs ==
    { DefaultBounds,
      [prefix \in {"stddev"} |-> << 0, NarrowStddev >>],
      [prefix \in {"stddev", "mean"} |->
          IF prefix = "stddev" THEN << 0, NarrowStddev >> ELSE << 5000, 5020 >>],
      [prefix \in {"wavelength"} |-> << 5000, 5020 >>] }

\* line 264: "wavelength" in common_bounds or "mean" in common_bounds
RejectsBounds(common_bounds) ==
    "wavelength" \in DOMAIN common_bounds \/ "mean" \in DOMAIN common_bounds

FitInit ==
    /\ EqIdle
    /\ SolveIdle
    /\ LoadIdle
    /\ BatchIdle
    /\ SamplingIdle
    /\ \E c \in CleanColumns :
          atomic_transitions = [i \in Rows |-> [InitialTransitions[i] EXCEPT !.clean = c[i]]]
    /\ data \in DataSets
    /\ supplied \in SUBSET StellarParameters
    /\ wavelength_region \in WavelengthRegions
    /\ tolerance_kwarg \in WavelengthTolerances
    /\ bounds_kwarg \in BoundsKwargs
    /\ continuum_order \in ContinuumOrders
    /\ outlier_modeling \in BOOLEAN
    /\ max_outlier_profiles \in 0 .. MaxOutlierProfiles
    /\ fit_pc = "line"
    /\ fit_k = 1
    /\ fit_j = 0
    /\ profile = NoProfile
    /\ fit_error = "none"
    /\ fit_written = {}

\* mutant of PhotosphereGiven: metallicity left out of the test
PhotosphereGiven_TwoOfThree(given) ==
    {"effective_temperature", "surface_gravity"} \subseteq given

\* line 310: None not in (effective_temperature, surface_gravity, metallicity)
PhotosphereGiven(given) == StellarParameters \subseteq given

\* wavelengths_in_data for one wavelength: the last channel holding it
\* (0-based), or -1
DataIndex(wavelength, spectra) ==
    LET holding == { c \in DOMAIN spectra :
                        spectra[c].hi >= wavelength /\ wavelength >= spectra[c].lo }
    IN  IF holding = {} THEN -1
        ELSE (CHOOSE c \in holding : \A d \in holding : d <= c) - 1

\* mutant of Measurable: the clean column is not looked at
Measurable_IgnoringClean(table, spectra) ==
    { i \in DOMAIN table : DataIndex(table[i].wavelength, spectra) > -1 }

\* lines 316-318: clean * (data_indices > -1)
Measurable(table, spectra) ==
    { i \in DOMAIN table : table[i].clean /\ DataIndex(table[i].wavelength, spectra) > -1 }

\* line 321: np.where(measurable)[0], in table order
RECURSIVE Ascending(_)
Ascending(S) ==
    IF S = {} THEN << >>
    ELSE LET lowest == CHOOSE i \in S : \A j \in S : i <= j
         IN  << lowest >> \o Ascending(S \ {lowest})

TransitionIndices == Ascending(Measurable(atomic_transitions, data))

\* lines 334-336: the other catalogued lines within the window
Blending(table, row, region) ==
    { i \in DOMAIN table :
        i # row /\ region >= Abs(table[i].wavelength - table[row].wavelength) }

\* lines 485-487: 10e3 * sqrt(pi) * amplitude * 0.25 * stddev, in milliAngstrom
\* (10e3 * sqrt(pi) * 0.25 = 4431.1; amplitude in 1/100, stddev in 1/1000)
EquivalentWidth(amplitude, stddev) == Rat(44311 * amplitude * stddev, 1000000)

\* line 256: abs(kwargs.pop("wavelength_tolerance", 0))
WavelengthTolerance(kwarg) == Abs(kwarg)

\* a parameter name of an astropy model: "mean" is Param("mean", -1) and
\* "mean_1" is Param("mean", 1)
Param(prefix, index) == [prefix |-> prefix, index |-> index]

Prefixes == {"amplitude", "mean", "stddev"}

\* param_names of a model of n absorption profiles: a single model's names
\* carry no suffix, a compound model's carry the number of the component
ParamNames(n) ==
    IF n = 1 THEN { Param(prefix, -1) : prefix \in Prefixes }
    ELSE { Param(prefix, k) : prefix \in Prefixes, k \in 0 .. n - 1 }

\* line 272: hasattr(compound_model, "mean")
SingleModel(model) == Len(model.components) = 1

\* line 273: ["mean_0", "mean"][single_model]
TransitionMeanKey(model) ==
    IF SingleModel(model) THEN Param("mean", -1) ELSE Param("mean", 0)

\* mutant of OutlierMeans: the centre of the transition counts as an outlier
OutlierMeans_All(model) ==
    { name \in ParamNames(Len(model.components)) : name.prefix = "mean" }

\* lines 283-284: param_name.startswith("mean_") and
\* param_name != transition_mean_key
OutlierMeans(model) ==
    { name \in ParamNames(Len(model.components)) :
        /\ name.prefix = "mean"
        /\ name.index >= 0
        /\ name # TransitionMeanKey(model) }

\* lines 282-293: the `num` the loop of _update_compound_model ends with, that
\* of the last parameter name: "0" for a single model ("stddev" has no "_"),
\* the number of the last component for a compound one
LastNum(model) == IF SingleModel(model) THEN 0 ELSE Len(model.components) - 1

\* mutant of CommonBounded: the outlier components are left out
CommonBounded_PrimaryOnly(names, common_bounds) ==
    { name \in names : name.prefix \in DOMAIN common_bounds /\ name.index <= 0 }

\* lines 289-296: the parameters whose prefix is a key of common_bounds
CommonBounded(names, common_bounds) ==
    { name \in names : name.prefix \in DOMAIN common_bounds }

\* lines 269-305: _update_compound_model; the tolerance is the one of line 256
\* and common_bounds the mapping of line 260
UpdateCompoundModel(model, wavelength, tolerance, common_bounds) ==
    LET names  == ParamNames(Len(model.components))
        key    == TransitionMeanKey(model)
        \* lines 274-280
        bounded == IF tolerance > 0 THEN {key} ELSE {}
        fixed0  == IF tolerance > 0 THEN model.fixed ELSE model.fixed \cup {key}
        \* lines 289-296: prefix, num = param_name.split("_")
        common == CommonBounded(names, common_bounds)
    IN  [model EXCEPT
            !.fixed = fixed0 \cup OutlierMeans(model),
            !.bounds =
                [name \in DOMAIN model.bounds \cup bounded \cup common |->
                    IF name \in common THEN common_bounds[name.prefix]
                    ELSE IF name \in bounded
                         THEN << wavelength - tolerance, wavelength + tolerance >>
                         ELSE model.bounds[name]],
            \* lines 302-304: prefix == "stddev" and num != "0"; the lambda
            \* reads `num` when the fitter calls it, after the loop has ended
            !.tied =
                [name \in DOMAIN model.tied
                           \cup { n \in names : n.prefix = "stddev" /\ n.index >= 1 } |->
                    IF name \in names /\ name.prefix = "stddev" /\ name.index >= 1
                    THEN LastNum(model)
                    ELSE model.tied[name]]]

\* what the fitter gets from model.tied[name](model): lines 303-304,
\* _.stddev_0 * getattr(compound_model, "mean_{}".format(num)) / _.mean_0
TiedStddev(model, name) ==
    Rat(model.components[1].stddev * model.components[model.tied[name] + 1].mean,
        model.components[1].mean)

\* a positive rational to the nearest integer
Round(r) == (2 * r.num + r.den) \div (2 * r.den)

\* the initial guesses of lines 348 and 358: amplitude (1/100), stddev
\* (1/1000 Angstrom)
InitialAmplitude == 40

InitialStddev == 100

\* lines 405-412: the absorption profile of the transition, no constraints yet
SingleProfile(wavelength) ==
    [components |-> << [amplitude |-> InitialAmplitude, mean |-> wavelength,
                        stddev |-> InitialStddev] >>,
     fixed |-> {}, bounds |-> [name \in {} |-> << 0, 0 >>],
     tied |-> [name \in {} |-> 0],
     centre_off |-> FALSE]

\* lines 457-459: profile *= GaussianAbsorption1D(mean=x[most_discrepant],
\* stddev=initial_stddev, amplitude=1.0 - y[most_discrepant]); the product
\* is a new model
Compound(model, mean, amplitude) ==
    [components |-> Append(model.components,
                           [amplitude |-> amplitude, mean |-> mean,
                            stddev |-> InitialStddev]),
     fixed |-> {}, bounds |-> [name \in {} |-> << 0, 0 >>],
     tied |-> [name \in {} |-> 0],
     centre_off |-> model.centre_off]

\* where the most discrepant pixel may lie, relative to the transition
\* (Angstrom), and how deep the data are there (1/100)
MostDiscrepant == [offset : {-1, 1}, depth : {30}]

\* what the fitter leaves in an outlier component: its mean is fixed, its
\* stddev tied to the primary one's, its amplitude fitted (1/100)
FittedOutlierAmplitude == 35

\* lines 434-435: "stddev" of a single model (j == 1), "stddev_0" of a
\* compound one (j > 1); likewise for the other prefixes
PrimaryName(model, prefix) ==
    IF SingleModel(model) THEN Param(prefix, -1) ELSE Param(prefix, 0)

\* the fitter keeps a bounded parameter at or below its upper bound
Within(model, name, value) ==
    IF name \in DOMAIN model.bounds /\ value > model.bounds[name][2]
    THEN model.bounds[name][2]
    ELSE value

\* the stddev the fitter leaves in the primary component
PrimaryStddev(model, outcome) ==
    Within(model, PrimaryName(model, "stddev"), outcome.stddev)

\* line 423: the fitted model keeps the constraints; the amplitude and
\* stddev of the primary component and the amplitudes of the outlier
\* components are the fitted ones
Fitted(model, outcome) ==
    [model EXCEPT
        !.components =
            [k \in DOMAIN model.components |->
                IF k = 1
                THEN [model.components[k] EXCEPT
                        !.amplitude = Within(model, PrimaryName(model, "amplitude"),
                                             outcome.amplitude),
                        !.stddev = PrimaryStddev(model, outcome)]
                ELSE [model.components[k] EXCEPT
                        !.amplitude = FittedOutlierAmplitude,
                        \* the tie, with the fitted stddev_0, to 1/1000 Angstrom
                        !.stddev =
                            Round(Rat(PrimaryStddev(model, outcome)
                                        * model.components[
                                            model.tied[Param("stddev", k - 1)] + 1].mean,
                                      model.components[1].mean))]],
        !.centre_off = outcome.centre_off]

\* lines 434-436: saturated stddev, or more than 5 per cent off at the centre
NeedsOutlierProfile(fitted) ==
    LET stddev == PrimaryName(fitted, "stddev")
    IN  \/ /\ stddev \in DOMAIN fitted.bounds
           /\ fitted.components[1].stddev = fitted.bounds[stddev][2]
        \/ fitted.centre_off

\* mutant of WidthParameters: the names of the last component
WidthParameters_Last(model) ==
    IF SingleModel(model)
    THEN [amplitude |-> Param("amplitude", -1), stddev |-> Param("stddev", -1)]
    ELSE [amplitude |-> Param("amplitude", Len(model.components) - 1),
          stddev |-> Param("stddev", Len(model.components) - 1)]

\* lines 475-478: "amplitude" and "stddev", with "_0" appended unless "mean"
\* is among the parameter names
WidthParameters(model) ==
    IF Param("mean", -1) \in ParamNames(Len(model.components))
    THEN [amplitude |-> Param("amplitude", -1), stddev |-> Param("stddev", -1)]
    ELSE [amplitude |-> Param("amplitude", 0), stddev |-> Param("stddev", 0)]

\* getattr(profile, name): a single model's parameter, or the parameter of
\* the numbered component
GetAttr(model, name) ==
    LET component == model.components[IF name.index = -1 THEN 1 ELSE name.index + 1]
    IN  IF name.prefix = "amplitude" THEN component.amplitude
        ELSE IF name.prefix = "stddev" THEN component.stddev
        ELSE component.mean

CurrentRow == TransitionIndices[fit_k]

\* lines 264-266 let the mapping pass
AtLine ==
    /\ fit_pc = "line"
    /\ fit_k <= Len(TransitionIndices)
    /\ ~RejectsBounds(bounds_kwarg)

\* line 362: continuum_order > -1
AtContinuum == AtLine /\ continuum_order > -1

\* lines 373-374: blending lines and no photosphere
AtBlendingError ==
    /\ AtLine
    /\ ~(continuum_order > -1)
    /\ Blending(atomic_transitions, CurrentRow, wavelength_region) # {}
    /\ ~PhotosphereGiven(supplied)

\* lines 373-412: a profile can be set up
AtStartProfile ==
    /\ AtLine
    /\ ~(continuum_order > -1)
    /\ (Blending(atomic_transitions, CurrentRow, wavelength_region) # {}
            => PhotosphereGiven(supplied))

\* lines 264-266: raise ValueError, before the loop over the transitions
BoundsRejected ==
    /\ fit_pc = "line"
    /\ fit_k = 1
    /\ fit_written = {}
    /\ RejectsBounds(bounds_kwarg)
    /\ fit_pc' = "raised"
    /\ fit_error' = "ValueError"
    /\ UNCHANGED << atomic_transitions, notFitVars, data, supplied, wavelength_region,
                    tolerance_kwarg, bounds_kwarg,
                    continuum_order, outlier_modeling, max_outlier_profiles, fit_k,
                    fit_j, profile, fit_written >>

\* lines 361-370
ContinuumNotImplemented ==
    /\ AtContinuum
    /\ fit_pc' = "raised"
    /\ fit_error' = "NotImplementedError"
    /\ UNCHANGED << atomic_transitions, notFitVars, data, supplied, wavelength_region,
                    tolerance_kwarg, bounds_kwarg,
                    continuum_order, outlier_modeling, max_outlier_profiles, fit_k,
                    fit_j, profile, fit_written >>

\* lines 373-378
BlendingWithoutPhotosphere ==
    /\ AtBlendingError
    /\ fit_pc' = "raised"
    /\ fit_error' = "ValueError"
    /\ UNCHANGED << atomic_transitions, notFitVars, data, supplied, wavelength_region,
                    tolerance_kwarg, bounds_kwarg,
                    continuum_order, outlier_modeling, max_outlier_profiles, fit_k,
                    fit_j, profile, fit_written >>

\* lines 380-418: the (synthesis-backed or plain) absorption profile, j = 1
StartProfile ==
    /\ AtStartProfile
    /\ profile' =
          UpdateCompoundModel(SingleProfile(atomic_transitions[CurrentRow].wavelength),
                              atomic_transitions[CurrentRow].wavelength,
                              WavelengthTolerance(tolerance_kwarg), bounds_kwarg)
    /\ fit_j' = 1
    /\ fit_pc' = "fit"
    /\ UNCHANGED << atomic_transitions, notFitVars, data, supplied, wavelength_region,
                    tolerance_kwarg, bounds_kwarg,
                    continuum_order, outlier_modeling, max_outlier_profiles, fit_k,
                    fit_error, fit_written >>

\* line 423: profile = fitter(profile, x, y)
Fit ==
    /\ fit_pc = "fit"
    /\ \E outcome \in FitOutcomes : profile' = Fitted(profile, outcome)
    /\ fit_pc' = "fitted"
    /\ UNCHANGED << atomic_transitions, notFitVars, data, supplied, wavelength_region,
                    tolerance_kwarg, bounds_kwarg,
                    continuum_order, outlier_modeling, max_outlier_profiles, fit_k,
                    fit_j, fit_error, fit_written >>

\* line 423: the fitter raised; nothing in fit_atomic_transitions catches it
FitRaises ==
    /\ fit_pc = "fit"
    /\ fit_pc' = "raised"
    /\ fit_error' = "FitError"
    /\ UNCHANGED << atomic_transitions, notFitVars, data, supplied, wavelength_region,
                    tolerance_kwarg, bounds_kwarg,
                    continuum_order, outlier_modeling, max_outlier_profiles, fit_k,
                    fit_j, profile, fit_written >>

\* line 426: not outlier_modeling or max_outlier_profiles == j
NoMoreOutlierModeling(modeling, maximum, j) == ~modeling \/ maximum = j

\* line 426: break
StopFitting ==
    /\ fit_pc = "fitted"
    /\ NoMoreOutlierModeling(outlier_modeling, max_outlier_profiles, fit_j)
    /\ fit_pc' = "save"
    /\ UNCHANGED << atomic_transitions, notFitVars, data, supplied, wavelength_region,
                    tolerance_kwarg, bounds_kwarg,
                    continuum_order, outlier_modeling, max_outlier_profiles, fit_k,
                    fit_j, profile, fit_error, fit_written >>

\* lines 434-463: one more outlier profile, j += 1, fit again
AddOutlierProfile ==
    /\ fit_pc = "fitted"
    /\ ~NoMoreOutlierModeling(outlier_modeling, max_outlier_profiles, fit_j)
    /\ NeedsOutlierProfile(profile)
    /\ fit_j < MaxFitRounds
    /\ \E pixel \in MostDiscrepant :
          profile' =
              UpdateCompoundModel(
                  Compound(profile,
                           atomic_transitions[CurrentRow].wavelength + pixel.offset,
                           pixel.depth),
                  atomic_transitions[CurrentRow].wavelength,
                  WavelengthTolerance(tolerance_kwarg), bounds_kwarg)
    /\ fit_j' = fit_j + 1
    /\ fit_pc' = "fit"
    /\ UNCHANGED << atomic_transitions, notFitVars, data, supplied, wavelength_region,
                    tolerance_kwarg, bounds_kwarg,
                    continuum_order, outlier_modeling, max_outlier_profiles, fit_k,
                    fit_error, fit_written >>

\* lines 465-467: no outlier treatment required
FitAccepted ==
    /\ fit_pc = "fitted"
    /\ ~NoMoreOutlierModeling(outlier_modeling, max_outlier_profiles, fit_j)
    /\ ~NeedsOutlierProfile(profile)
    /\ fit_pc' = "save"
    /\ UNCHANGED << atomic_transitions, notFitVars, data, supplied, wavelength_region,
                    tolerance_kwarg, bounds_kwarg,
                    continuum_order, outlier_modeling, max_outlier_profiles, fit_k,
                    fit_j, profile, fit_error, fit_written >>

\* mutant of WriteEquivalentWidth: the value lands in the wavelength column
WriteEquivalentWidth_Wavelength(table, row, width) ==
    [table EXCEPT ![row].wavelength = width.num]

\* line 485: self.atomic_transitions["equivalent_width"][transition_index] = ...
WriteEquivalentWidth(table, row, width) ==
    [table EXCEPT ![row].equivalent_width = width]

\* lines 471-487: the equivalent width of the transition, then the next one
SaveEquivalentWidth ==
    /\ fit_pc = "save"
    /\ atomic_transitions' =
          WriteEquivalentWidth(atomic_transitions, CurrentRow,
                               EquivalentWidth(
                                   GetAttr(profile, WidthParameters(profile).amplitude),
                                   GetAttr(profile, WidthParameters(profile).stddev)))
    /\ fit_written' = fit_written \cup {CurrentRow}
    /\ fit_k' = fit_k + 1
    /\ fit_pc' = "line"
    /\ UNCHANGED << notFitVars, data, supplied, wavelength_region,
                    tolerance_kwarg, bounds_kwarg, continuum_order,
                    outlier_modeling, max_outlier_profiles, fit_j, profile,
                    fit_error >>

\* lines 512-527: after the last transition the method ends in `raise a`
RaiseAfterBatch ==
    /\ fit_pc = "line"
    /\ fit_k > Len(TransitionIndices)
    /\ ~RejectsBounds(bounds_kwarg)
    /\ fit_pc' = "raised"
    /\ fit_error' = "NameError"
    /\ UNCHANGED << atomic_transitions, notFitVars, data, supplied, wavelength_region,
                    tolerance_kwarg, bounds_kwarg,
                    continuum_order, outlier_modeling, max_outlier_profiles, fit_k,
                    fit_j, profile, fit_written >>

FitNext ==
    \/ BoundsRejected
    \/ ContinuumNotImplemented
    \/ BlendingWithoutPhotosphere
    \/ StartProfile
    \/ Fit
    \/ FitRaises
    \/ StopFitting
    \/ AddOutlierProfile
    \/ FitAccepted
    \/ SaveEquivalentWidth
    \/ RaiseAfterBatch

SpecFit == FitInit /\ [][FitNext]_vars

-----------------------------------------------------------------------------
(* Properties of fit_atomic_transitions *)

\* the transitions of the batch that come after the current one
LaterRows ==
    { TransitionIndices[k] : k \in (fit_k + 1) .. Len(TransitionIndices) }

\* the transitions of the batch that came before the current one
EarlierRows == { TransitionIndices[k] : k \in 1 .. (fit_k - 1) }

\* C7: when the fit of one transition fails (the fitter raises), the failure
\* is caught and the batch goes on: it never leaves fit_atomic_transitions
\* with later transitions of the batch still to be fitted.
C7_FitFailureCaught ==
    ~(fit_pc = "raised" /\ fit_error = "FitError" /\ LaterRows # {})

\* C9: with outlier modelling enabled, the number of outlier components added
\* to a line's model never exceeds max_outlier_profiles.
C9_OutlierProfilesBounded ==
    outlier_modeling => Len(profile.components) - 1 <= max_outlier_profiles

\* the batch is at a measurable line that has another catalogued line within
\* the window, and a stellar parameter was not supplied; the bounds mapping
\* passed lines 264-266, or the loop over the lines is never entered
BlendedLineWithoutParameters ==
    /\ fit_pc \notin {"idle"}
    /\ ~RejectsBounds(bounds_kwarg)
    /\ fit_k <= Len(TransitionIndices)
    /\ \E i \in DOMAIN atomic_transitions :
          /\ i # CurrentRow
          /\ Abs(atomic_transitions[i].wavelength
                    - atomic_transitions[CurrentRow].wavelength) <= wavelength_region
    /\ \E p \in StellarParameters : p \notin supplied

RaisedAtLine(error) ==
    /\ fit_pc = "raised" /\ fit_error = error /\ fit_k <= Len(TransitionIndices)
    /\ ~RejectsBounds(bounds_kwarg)

\* the batch stopped at the current line: the earlier lines keep the widths
\* written for them, the current and the later lines were never fitted
BatchAborted ==
    /\ fit_written = EarlierRows
    /\ \A i \in EarlierRows : ~atomic_transitions[i].equivalent_width.nan
    /\ \A i \in {CurrentRow} \cup LaterRows : atomic_transitions[i].equivalent_width.nan

-----------------------------------------------------------------------------
(* estimate_stellar_parameters *)

\* the root-finder is followed for at most MaxFev evaluations (maxfev)
MaxFev == 2

\* equivalent widths (milliAngstrom) of the tables the solver is started on:
\* every line usable; every line of the same strength; the ionised line too
\* weak for the filter; only the ionised line strong enough
SolveWidths ==
    { << 10, 27, 27, 10 >>, << 27, 27, 27, 27 >>, << 10, 27, 3, 27 >>,
      << 3, 3, 27, 3 >> }

\* the record tables equalibrium_state hands back (lines 586-588): measured
\* widths, the filter, and at most one row flagged as an outlier
SolveTables ==
    { WriteOutlierMask(
          Records([i \in Rows |->
                      [InitialTransitions[i] EXCEPT !.equivalent_width = Num(w[i])]],
                  [i \in Rows |-> 0]),
          Rows, mask) :
        w \in SolveWidths, mask \in {{}, {1}, {4}} }

\* trial points of the root-finder: the metallicity x[2], and whether the
\* point lies inside the grid of model atmospheres
TrialPoints == [metallicity : {-1, 0}, in_grid : BOOLEAN]

SolveInit ==
    /\ atomic_transitions = InitialTransitions
    /\ EqIdle
    /\ FitIdle
    /\ LoadIdle
    /\ BatchIdle
    /\ SamplingIdle
    /\ transitions_table \in SolveTables
    /\ theta = NoTrial
    /\ trial_abundances = Unset
    /\ objective = Unset
    /\ nfev = 0
    /\ solve_pc = "fsolve"
    /\ solve_error = "none"
    /\ abundance_failed = FALSE
    /\ repeated = FALSE

\* line 607: np.array([np.nan, np.nan, np.nan, np.nan])
FailedAbundances == << NaN, NaN, NaN, NaN >>

\* mutant of Tenth: the abundance state is not scaled
Tenth_Whole(r) == r

\* 0.1 * abundance_state
Tenth(r) == IF r.nan THEN NaN ELSE Rat(r.num, 10 * r.den)

\* lines 609-645: the state of the used rows for the abundances returned
SolverState(table, abundances, mh) ==
    LET use     == UseLines(table)
        neutral == { i \in use : IsNeutral(table[i].species) }
        ionised == { i \in use : IsIonised(table[i].species) }
        with    == [i \in DOMAIN table |->
                      [table[i] EXCEPT !.abundance =
                          IF i \in use THEN Num(abundances[i]) ELSE NaN]]
        exc     == LinRegress(ExcitationOf(with), AbundanceOf(with), neutral)
        ls      == LinRegress(ReducedWidthOf(with), AbundanceOf(with), neutral)
    IN  << Slope(exc),
           IonisationState(with, neutral, ionised),
           Tenth(AbundanceState(with, use, mh)),
           Slope(ls) >>

\* mutant of TableAfterEvaluation: the abundances are stored in the table
TableAfterEvaluation_Stored(table, returned) ==
    [i \in DOMAIN table |->
        [table[i] EXCEPT !.abundance =
            IF i \in DOMAIN returned THEN Num(returned[i]) ELSE NaN]]

\* lines 598-650: state_function assigns to locals only; transitions_table,
\* use, neutral and ionised are read
TableAfterEvaluation(table, returned) == table

\* abundances the evaluator may return for a line at a trial point
TrialAbundances == {0, 2}

\* the root-finder calls state_function at another trial point
AtTrial == solve_pc = "fsolve" /\ nfev < MaxFev

\* lines 602-607: the abundance call raises ValueError at the trial point
StateFunctionAbundancesFail ==
    /\ AtTrial
    /\ \E point \in TrialPoints :
          /\ ~point.in_grid
          /\ theta' = point
    /\ trial_abundances' = Unset
    /\ objective' = FailedAbundances
    /\ abundance_failed' = TRUE
    /\ repeated' = (nfev >= 1 /\ theta' = theta /\ trial_abundances' = trial_abundances)
    /\ nfev' = nfev + 1
    /\ UNCHANGED << atomic_transitions, eqVars, fitVars, loadVars, batchVars, samplingVars,
                    transitions_table,
                    solve_pc, solve_error >>

\* lines 602-650: abundances are returned and the state is finite
StateFunction ==
    /\ AtTrial
    /\ \E point \in TrialPoints :
          /\ point.in_grid
          /\ theta' = point
          /\ trial_abundances' \in [UseLines(transitions_table) -> TrialAbundances]
          /\ objective' = SolverState(transitions_table, trial_abundances',
                                      point.metallicity)
    /\ ~HasNaN(objective')
    /\ transitions_table' = TableAfterEvaluation(transitions_table, trial_abundances')
    /\ abundance_failed' = FALSE
    /\ repeated' = (nfev >= 1 /\ theta' = theta /\ trial_abundances' = trial_abundances)
    /\ nfev' = nfev + 1
    /\ UNCHANGED << atomic_transitions, eqVars, fitVars, loadVars, batchVars, samplingVars,
                    solve_pc,
                    solve_error >>

\* lines 647-648: the state is not finite; `raise WTFError()` names nothing
\* the module binds, so a NameError leaves the root-finder (a linregress that
\* rejects empty input raises ValueError before that)
StateFunctionRaises ==
    /\ AtTrial
    /\ \E point \in TrialPoints :
          /\ point.in_grid
          /\ theta' = point
          /\ trial_abundances' \in [UseLines(transitions_table) -> TrialAbundances]
          /\ HasNaN(SolverState(transitions_table, trial_abundances',
                                point.metallicity))
    /\ \/ solve_error' = "NameError"
       \/ /\ \A i \in UseLines(transitions_table) :
                ~IsNeutral(transitions_table[i].species)
          /\ solve_error' = "ValueError"
    /\ abundance_failed' = FALSE
    /\ repeated' = FALSE
    /\ nfev' = nfev + 1
    /\ solve_pc' = "raised"
    /\ UNCHANGED << atomic_transitions, eqVars, fitVars, loadVars, batchVars, samplingVars,
                    transitions_table,
                    objective >>

\* lines 671-673: the root-finder returns and its output is bound to `result`
FsolveReturns ==
    /\ solve_pc = "fsolve"
    /\ nfev >= 1
    /\ solve_pc' = "finished"
    /\ UNCHANGED << atomic_transitions, eqVars, fitVars, loadVars, batchVars, samplingVars,
                    transitions_table,
                    theta, trial_abundances, objective, nfev, solve_error,
                    abundance_failed, repeated >>

\* line 675: the statement after the root-finder is `raise a`; nothing binds
\* `a`, so a NameError leaves the method and no return statement is reached
RaiseAfterFsolve ==
    /\ solve_pc = "finished"
    /\ solve_pc' = "raised"
    /\ solve_error' = "NameError"
    /\ UNCHANGED << atomic_transitions, eqVars, fitVars, loadVars, batchVars, samplingVars,
                    transitions_table,
                    theta, trial_abundances, objective, nfev,
                    abundance_failed, repeated >>

SolveNext ==
    \/ StateFunctionAbundancesFail
    \/ StateFunction
    \/ StateFunctionRaises
    \/ FsolveReturns
    \/ RaiseAfterFsolve

SpecSolve == SolveInit /\ [][SolveNext]_vars

-----------------------------------------------------------------------------
(* Properties of estimate_stellar_parameters *)

\* C6: when the abundance computation fails at a trial point, the objective
\* function hands the root-finder a finite 4-vector: no component is NaN.
C6_FiniteSentinel ==
    abundance_failed =>
        /\ Len(objective) = 4
        /\ \A k \in 1 .. 4 : ~objective[k].nan

\* C16: once the root-finder has finished, estimate_stellar_parameters
\* returns the point estimates to its caller: the step that follows the
\* root-finder's return is the method's return, and no exception is raised.
C16_ReturnsPointEstimates ==
    [][solve_pc = "finished" =>
            (solve_pc' = "returned" /\ solve_error' = "none")]_vars

-----------------------------------------------------------------------------
(* __init__ and _initialise_atomic_transitions *)

\* mutant of RequiredColumns: the last column is not verified
RequiredColumns_WithoutLoggf == << "wavelength", "species", "excitation_potential" >>

\* line 118: ("wavelength", "species", "excitation_potential", "loggf")
RequiredColumns == << "wavelength", "species", "excitation_potential", "loggf" >>

\* lines 129-138: the columns added with defaults, in the order of the list
DefaultColumnList == << "equivalent_width", "clean", "abundance", "custom_mask" >>

DefaultColumns == { DefaultColumnList[k] : k \in DOMAIN DefaultColumnList }

\* lines 129-138: the dtype of each default column
DefaultDtype(name) ==
    CASE name = "equivalent_width" -> "float64"
      [] name = "clean" -> "bool"
      [] name = "abundance" -> "float64"
      [] name = "custom_mask" -> "S32"

\* line 137: dtype="|S32", a string of at most 32 characters
CustomMaskWidth == 32

RECURSIVE Repeat(_, _)
Repeat(c, n) == IF n = 0 THEN << >> ELSE << c >> \o Repeat(c, n - 1)

\* custom-mask identifiers, as strings of characters: "" (no mask), a short
\* one, one of 33 characters and its first 32 characters
NoMask == << >>
ShortMask == << "t" >>
LongMask == Repeat("a", CustomMaskWidth + 1)
LongMaskPrefix == Repeat("a", CustomMaskWidth)

\* lines 129-138: what a default column holds (np.nan, True, np.nan, "");
\* booleans are written 1 and 0
DefaultValue(name) ==
    CASE name = "equivalent_width" -> NaN
      [] name = "clean" -> 1
      [] name = "abundance" -> NaN
      [] name = "custom_mask" -> {NoMask}

\* a string cast to "|S32" keeps its first 32 characters
Truncate(mask) ==
    IF Len(mask) > CustomMaskWidth THEN SubSeq(mask, 1, CustomMaskWidth) ELSE mask

\* mutant of Convert: the default column takes the place of the old one
Convert_Reset(name, value, from) == DefaultValue(name)

\* lines 146-148: table.Column(data=old column, dtype=default dtype).  Strings
\* are cut to the new width, integers become booleans (non-zero is True),
\* float32 widens to float64 without change
Convert(name, value, from) ==
    CASE name = "custom_mask" -> { Truncate(mask) : mask \in value }
      [] name = "clean" -> IF value # 0 THEN 1 ELSE 0
      [] OTHER -> value

\* the derived columns a table may come with: dtype and content
DerivedColumn(name) ==
    CASE name = "equivalent_width" ->
            { [dtype |-> "float64", value |-> NaN],
              [dtype |-> "float32", value |-> Num(27)] }
      [] name = "clean" ->
            { [dtype |-> "bool", value |-> 0],
              [dtype |-> "int64", value |-> 2],
              [dtype |-> "int64", value |-> 0] }
      [] name = "abundance" ->
            { [dtype |-> "float64", value |-> Num(1)] }
      [] name = "custom_mask" ->
            { [dtype |-> "S8", value |-> {ShortMask}],
              [dtype |-> "S8", value |-> {NoMask, ShortMask}],
              [dtype |-> "S32", value |-> {}],
              [dtype |-> "S32", value |-> {NoMask}],
              [dtype |-> "S32", value |-> {ShortMask}],
              [dtype |-> "S32", value |-> {NoMask, ShortMask}],
              [dtype |-> "S40", value |-> {LongMask}],
              [dtype |-> "S40", value |-> {NoMask, LongMask}],
              [dtype |-> "S40", value |-> {ShortMask, LongMask}] }

\* the custom_mask sections a configuration may define
CustomMasks ==
    { {}, {ShortMask}, {LongMask}, {LongMaskPrefix}, {ShortMask, LongMask} }

\* the table does not have the column
Absent(name) == [dtype |-> "absent", value |-> DefaultValue(name)]

\* the tables a configuration may name: any of the required columns, any of
\* the derived columns
Tables ==
    { LET d == [equivalent_width |-> ew, clean |-> cl, abundance |-> ab,
                custom_mask |-> cm]
          derived == { n \in DefaultColumns : d[n].dtype # "absent" }
      IN  [columns |-> required \cup derived,
           dtypes |-> [n \in derived |-> d[n].dtype],
           values |-> [n \in derived |-> d[n].value]] :
        required \in SUBSET {"wavelength", "species", "excitation_potential", "loggf"},
        ew \in DerivedColumn("equivalent_width") \cup {Absent("equivalent_width")},
        cl \in DerivedColumn("clean") \cup {Absent("clean")},
        ab \in DerivedColumn("abundance") \cup {Absent("abundance")},
        cm \in DerivedColumn("custom_mask") \cup {Absent("custom_mask")} }

\* configurations the model is constructed from: where the transitions are
\* ("filename", "transitions" or neither), whether the file reads, the table,
\* and the custom masks the configuration defines
Configurations ==
    { [source |-> "absent", readable |-> TRUE, columns |-> {}, dtypes |-> << >>,
       values |-> << >>, custom_mask |-> {}],
      [source |-> "filename", readable |-> FALSE, columns |-> {}, dtypes |-> << >>,
       values |-> << >>, custom_mask |-> {}] }
    \cup
    { [source |-> src, readable |-> TRUE, columns |-> t.columns,
       dtypes |-> t.dtypes, values |-> t.values, custom_mask |-> defined] :
        src \in {"filename", "transitions"}, t \in Tables, defined \in CustomMasks }

\* the names of a set, as the table lists them
InOrder(names) ==
    LET Listed(n) == n \in names
    IN  SelectSeq(<< "wavelength", "species", "excitation_potential", "loggf",
                     "equivalent_width", "clean", "abundance", "custom_mask" >>,
                  Listed)

Names(columns) == { columns[k] : k \in DOMAIN columns }

LoadInit ==
    /\ atomic_transitions = Unset
    /\ EqIdle
    /\ FitIdle
    /\ SolveIdle
    /\ BatchIdle
    /\ SamplingIdle
    /\ config \in Configurations
    /\ colnames = << >>
    /\ coltypes = << >>
    /\ colvalues = << >>
    /\ load_pc = "load"
    /\ load_column = 0
    /\ load_error = NoError

\* lines 91-96, 108-115: the table is read from the file or built from the
\* configuration, and the configuration's reference to it deleted
ReadTable ==
    /\ load_pc = "load"
    /\ config.source # "absent"
    /\ config.readable
    /\ colnames' = InOrder(config.columns)
    /\ coltypes' = config.dtypes
    /\ colvalues' = config.values
    /\ config' = [config EXCEPT !.source = "deleted"]
    /\ load_column' = 1
    /\ load_pc' = "verify"
    /\ UNCHANGED << atomic_transitions, eqVars, fitVars, solveVars, batchVars, samplingVars,
                    load_error >>

\* lines 97-100: Table.read raised
ReadTableFails ==
    /\ load_pc = "load"
    /\ config.source = "filename"
    /\ ~config.readable
    /\ load_pc' = "raised"
    /\ load_error' = [type |-> "ValueError", message |-> "failed to load",
                      column |-> ""]
    /\ UNCHANGED << atomic_transitions, eqVars, fitVars, solveVars, batchVars, samplingVars,
                    config,
                    colnames, coltypes, colvalues, load_column >>

\* lines 109-110: neither a file name nor transitions in the configuration
NoTransitions ==
    /\ load_pc = "load"
    /\ config.source = "absent"
    /\ load_pc' = "raised"
    /\ load_error' = [type |-> "ValueError", message |-> "no atomic transitions",
                      column |-> ""]
    /\ UNCHANGED << atomic_transitions, eqVars, fitVars, solveVars, batchVars, samplingVars,
                    config,
                    colnames, coltypes, colvalues, load_column >>

AtColumn == load_pc = "verify" /\ load_column <= Len(RequiredColumns)

\* lines 118-119: the column is in the table
ColumnPresent ==
    /\ AtColumn
    /\ RequiredColumns[load_column] \in Names(colnames)
    /\ load_column' = load_column + 1
    /\ UNCHANGED << atomic_transitions, eqVars, fitVars, solveVars, batchVars, samplingVars,
                    config,
                    colnames, coltypes, colvalues, load_pc, load_error >>

\* lines 119-121: the column is not in the table
ColumnMissing ==
    /\ AtColumn
    /\ RequiredColumns[load_column] \notin Names(colnames)
    /\ load_pc' = "raised"
    /\ load_error' = [type |-> "ValueError", message |-> "missing column",
                      column |-> RequiredColumns[load_column]]
    /\ UNCHANGED << atomic_transitions, eqVars, fitVars, solveVars, batchVars, samplingVars,
                    config,
                    colnames, coltypes, colvalues, load_column >>

\* atomic_transitions.remove_column(name)
RemoveColumn(columns, name) ==
    LET Other(n) == n # name IN SelectSeq(columns, Other)

\* lines 139-151, for one default column: added when the table lacks it,
\* converted (removed and added again) when its dtype is not the default's
WithDefaultColumn(t, name) ==
    IF name \notin Names(t.names)
    THEN [names |-> Append(t.names, name),
          types |-> [n \in DOMAIN t.types \cup {name} |->
                        IF n = name THEN DefaultDtype(name) ELSE t.types[n]],
          values |-> [n \in DOMAIN t.values \cup {name} |->
                        IF n = name THEN DefaultValue(name) ELSE t.values[n]]]
    ELSE IF DefaultDtype(name) # t.types[name]
    THEN [names |-> Append(RemoveColumn(t.names, name), name),
          types |-> [t.types EXCEPT ![name] = DefaultDtype(name)],
          values |-> [t.values EXCEPT
                        ![name] = Convert(name, t.values[name], t.types[name])]]
    ELSE t

\* lines 139-151: the loop over the default columns, from the k-th on
RECURSIVE WithDefaultColumns(_, _)
WithDefaultColumns(t, k) ==
    IF k > Len(DefaultColumnList) THEN t
    ELSE WithDefaultColumns(WithDefaultColumn(t, DefaultColumnList[k]), k + 1)

\* lines 123-156: the default columns are added where the table lacks them
AddDefaultColumns ==
    /\ load_pc = "verify"
    /\ load_column > Len(RequiredColumns)
    /\ LET t == WithDefaultColumns(
                    [names |-> colnames, types |-> coltypes, values |-> colvalues], 1)
       IN  /\ colnames' = t.names
           /\ coltypes' = t.types
           /\ colvalues' = t.values
    /\ load_pc' = "masks"
    /\ UNCHANGED << atomic_transitions, eqVars, fitVars, solveVars, batchVars, samplingVars,
                    config,
                    load_column, load_error >>

\* line 159: set(atomic_transitions["custom_mask"]).difference({""})
MasksInTable == colvalues["custom_mask"] \ {NoMask}

\* lines 159-162: a row names a custom mask the configuration does not define
UnknownCustomMask ==
    /\ load_pc = "masks"
    /\ \E mask \in MasksInTable : mask \notin config.custom_mask
    /\ load_pc' = "raised"
    /\ load_error' = [type |-> "ValueError", message |-> "custom mask",
                      column |-> ""]
    /\ UNCHANGED << atomic_transitions, eqVars, fitVars, solveVars, batchVars, samplingVars,
                    config,
                    colnames, coltypes, colvalues, load_column >>

\* lines 164, 65-66: the table is returned and __init__ installs it as
\* self.atomic_transitions
InstallTable ==
    /\ load_pc = "masks"
    /\ \A mask \in MasksInTable : mask \in config.custom_mask
    /\ atomic_transitions' =
          [i \in Rows |->
              [InitialTransitions[i] EXCEPT
                  !.equivalent_width = colvalues["equivalent_width"],
                  !.clean = (colvalues["clean"] = 1),
                  !.abundance = colvalues["abundance"]]]
    /\ load_pc' = "installed"
    /\ UNCHANGED << eqVars, fitVars, solveVars, batchVars, samplingVars,
                    config, colnames, coltypes,
                    colvalues, load_column, load_error >>

LoadNext ==
    \/ ReadTable
    \/ ReadTableFails
    \/ NoTransitions
    \/ ColumnPresent
    \/ ColumnMissing
    \/ AddDefaultColumns
    \/ UnknownCustomMask
    \/ InstallTable

SpecLoad == LoadInit /\ [][LoadNext]_vars

-----------------------------------------------------------------------------
(* Properties of the constructor *)

\* the required columns the table given to the constructor lacks
MissingColumns ==
    {"wavelength", "species", "excitation_potential", "loggf"} \ config.columns

\* the table has been read (and the configuration's reference to it deleted)
TableRead == config.source = "deleted"

\* C10: constructing the model from a transition table that lacks a required
\* column (wavelength, species, excitation_potential, loggf) fails with a
\* ValueError whose message names a column that is really missing, and no
\* transition table is installed on the model.
C10_MissingColumnIsFatal ==
    /\ (atomic_transitions # Unset => MissingColumns = {})
    /\ (MissingColumns # {} /\ TableRead =>
            \/ load_pc = "verify" /\ load_column <= 4
            \/ /\ load_pc = "raised"
               /\ load_error.type = "ValueError"
               /\ load_error.message = "missing column"
               /\ load_error.column \in MissingColumns)
    /\ (load_error.message = "missing column" =>
            load_error.column \in MissingColumns /\ atomic_transitions = Unset)

\* the table lacks two columns, and the error names the first of them the
\* loop comes to
C10_Witness ==
    /\ load_pc = "raised"
    /\ MissingColumns = {"species", "loggf"}
    /\ load_error.column = "species"
    /\ atomic_transitions = Unset

\* the non-empty custom-mask identifiers the transitions of the table carry
CarriedMasks ==
    IF "custom_mask" \in config.columns
    THEN { mask \in config.values["custom_mask"] : Len(mask) > 0 }
    ELSE {}

\* the constructor has gone through the check of the custom masks
MasksChecked == load_pc = "installed" \/ load_error.message = "custom mask"

\* C11: constructing the model fails with a configuration error if a
\* transition carries a non-empty custom-mask identifier the configuration
\* does not define, and passes this check when every non-empty identifier is
\* defined.
C11_UnknownMaskIsFatal ==
    MasksChecked =>
        (load_error.message = "custom mask"
            <=> \E mask \in CarriedMasks : mask \notin config.custom_mask)

\* the table given to the constructor is one the constructor has augmented
\* before: it carries the four derived columns, with custom-mask identifiers
\* that fit the derived column (the storage it went through may have changed
\* the dtypes)
Reloaded ==
    /\ {"equivalent_width", "abundance", "clean", "custom_mask"} \subseteq config.columns
    /\ \A mask \in config.values["custom_mask"] : Len(mask) <= 32

\* the constructor has gone through the loop over the default columns
ColumnsAdded == load_pc \in {"masks", "installed"} \/ load_error.message = "custom mask"

\* the dtypes of a freshly initialised table
FreshSchema ==
    [equivalent_width |-> "float64", clean |-> "bool", abundance |-> "float64",
     custom_mask |-> "S32"]

\* C12: re-loading a table that already carries the derived columns gives a
\* table with the column names of a freshly initialised one, each once, the
\* values of the derived columns as they were, and each derived column with
\* the dtype of the fresh schema.
C12_ReloadKeepsSchema ==
    (Reloaded /\ ColumnsAdded) =>
        /\ Names(colnames) = config.columns
        /\ Names(colnames) = {"wavelength", "species", "excitation_potential", "loggf",
                              "equivalent_width", "abundance", "clean", "custom_mask"}
                                \ MissingColumns
        /\ Len(colnames) = Cardinality(Names(colnames))
        /\ coltypes = FreshSchema
        /\ colvalues["equivalent_width"] = config.values["equivalent_width"]
        /\ colvalues["abundance"] = config.values["abundance"]
        /\ colvalues["custom_mask"] = config.values["custom_mask"]
        /\ (colvalues["clean"] = 1) = (config.values["clean"] # 0)
        /\ colvalues["clean"] \in {0, 1}

\* a re-loaded table whose derived columns came back with other dtypes has
\* been converted and installed
C12_Witness ==
    /\ Reloaded
    /\ load_pc = "installed"
    /\ config.dtypes["equivalent_width"] = "float32"
    /\ config.dtypes["clean"] = "int64"
    /\ config.dtypes["custom_mask"] = "S8"
    /\ config.values["clean"] = 2
    /\ colnames[Len(colnames)] = "custom_mask"

-----------------------------------------------------------------------------
(* The operations of a constructed model, together *)

\* a constructed model, and one of its operations called on it
SpecOperations ==
    (EqInit \/ FitInit \/ SolveInit) /\ [][EqNext \/ FitNext \/ SolveNext]_vars

\* two tables list the same transitions: as many rows, and row by row the
\* same wavelength, species, excitation potential and loggf
SameTransitions(before, after) ==
    /\ Len(after) = Len(before)
    /\ \A i \in DOMAIN before :
          /\ after[i].wavelength = before[i].wavelength
          /\ after[i].species = before[i].species
          /\ after[i].excitation_potential = before[i].excitation_potential
          /\ after[i].loggf = before[i].loggf

\* C13: once the table is loaded, no step of fit_atomic_transitions,
\* equalibrium_state or estimate_stellar_parameters (its objective function
\* included) changes the wavelength, species, excitation potential or loggf
\* of a transition, or adds or deletes a transition; the record tables made
\* from the transitions list them unchanged.
C13_RequiredColumnsImmutable ==
    /\ [][SameTransitions(atomic_transitions, atomic_transitions')]_vars
    /\ [](rec # Unset => SameTransitions(atomic_transitions, rec))
    /\ [][transitions_table' = transitions_table]_vars

\* a fitting pass has written the widths of all four lines, and the lines
\* are the catalogued ones
C13_Witness ==
    /\ fit_written = Rows
    /\ \A i \in Rows : ~atomic_transitions[i].equivalent_width.nan
    /\ SameTransitions(Catalogue, atomic_transitions)

-----------------------------------------------------------------------------
(* Construction, and a fitting pass on a constructed model *)

SpecLoadAndFit == (LoadInit \/ FitInit) /\ [][LoadNext \/ FitNext]_vars

\* the transitions a fitting pass can measure: clean, and inside the
\* wavelength range of some spectrum
MeasurableRows ==
    { i \in DOMAIN atomic_transitions :
        /\ atomic_transitions[i].clean
        /\ \E c \in DOMAIN data :
              /\ data[c].lo <= atomic_transitions[i].wavelength
              /\ atomic_transitions[i].wavelength <= data[c].hi }

\* the loop of the fitting pass has gone through every transition
PassCompleted ==
    \/ fit_pc = "line" /\ fit_k > Len(TransitionIndices)
    \/ fit_pc = "raised" /\ fit_error = "NameError"

\* C14: equivalent widths start as NaN for a table loaded without that
\* column; a fitting pass writes the equivalent width of a measurable
\* transition (clean, inside some spectrum) once, a completed pass has written
\* every measurable transition, and the equivalent width of a transition that
\* is not measurable is never changed.
C14_WidthsWrittenOnce ==
    /\ [](load_pc = "installed" /\ "equivalent_width" \notin config.columns =>
            \A i \in DOMAIN atomic_transitions :
                atomic_transitions[i].equivalent_width.nan)
    /\ [](PassCompleted =>
            /\ fit_written = MeasurableRows
            /\ \A i \in MeasurableRows : ~atomic_transitions[i].equivalent_width.nan
            /\ \A i \in DOMAIN atomic_transitions \ MeasurableRows :
                  atomic_transitions[i].equivalent_width.nan)
    /\ [][atomic_transitions # Unset =>
            \A i \in DOMAIN atomic_transitions :
                atomic_transitions'[i].equivalent_width
                        # atomic_transitions[i].equivalent_width =>
                    /\ i \in MeasurableRows
                    /\ i \notin fit_written
                    /\ fit_written' = fit_written \cup {i}]_vars

\* a pass completed on a table with a line that is not clean and a line
\* outside the spectra: two widths written, two left as they were
C14_Witness ==
    /\ PassCompleted
    /\ Cardinality(fit_written) = 2
    /\ \E i \in Rows : ~atomic_transitions[i].clean
    /\ \E i \in Rows : atomic_transitions[i].clean /\ i \notin fit_written


-----------------------------------------------------------------------------
(* the solver's objective *)

\* the masks state_function reads (lines 589-593)
NeutralMask(table) == { i \in UseLines(table) : IsNeutral(table[i].species) }

IonisedMask(table) == { i \in UseLines(table) : IsIonised(table[i].species) }

\* C15: an evaluation of the solver's objective leaves the transitions table,
\* the used-line mask and the neutral and ionised masks as they were, and an
\* evaluation at the trial point of the one before, with the same answers of
\* the abundance evaluator, returns the same four numbers
C15_ObjectiveIsPure ==
    /\ [][nfev' = nfev + 1 =>
            /\ transitions_table' = transitions_table
            /\ UseLines(transitions_table') = UseLines(transitions_table)
            /\ NeutralMask(transitions_table') = NeutralMask(transitions_table)
            /\ IonisedMask(transitions_table') = IonisedMask(transitions_table)]_vars
    /\ [][(nfev' = nfev + 1 /\ solve_pc' = "fsolve" /\ repeated')
            => objective' = objective]_vars

\* a second evaluation at the same point with the same abundances returned a
\* finite state that is not the zero vector
C15_Witness ==
    /\ repeated
    /\ nfev = 2
    /\ ~abundance_failed
    /\ ~HasNaN(objective)
    /\ objective[1].num # 0
    /\ objective[3].num # 0


\* the primary component of the model being fitted
Primary == profile.components[1]

\* C19: the equivalent width stored for a transition is
\* 10^4 * sqrt(pi) * amplitude * 0.25 * stddev (4431.1 * amplitude * stddev)
\* of the primary component of the final model, single or compound; no
\* parameter of an outlier component enters it.
C19_WidthFromPrimaryComponent ==
    [][fit_written' # fit_written =>
          atomic_transitions'[CurrentRow].equivalent_width =
              Rat(44311 * Primary.amplitude * Primary.stddev, 1000000)]_vars

\* the width of a line was stored from a model with two outlier components
\* whose amplitudes differ from the primary one's
C19_Witness ==
    /\ fit_pc = "line"
    /\ fit_k > 1
    /\ TransitionIndices[fit_k - 1] \in fit_written
    /\ Len(profile.components) = 3
    /\ \A k \in 2 .. 3 : profile.components[k].amplitude # Primary.amplitude
    /\ ~atomic_transitions[TransitionIndices[fit_k - 1]].equivalent_width.nan

\* a model of the current transition is being fitted
ModelInUse == fit_pc \in {"fit", "fitted", "save"}

\* C20: in every model handed to the fitter or kept from it, the centre of
\* the transition is fixed when the wavelength tolerance is 0, and otherwise
\* free and bounded to the catalogued wavelength -/+ |tolerance|; the centre
\* of every outlier component is fixed.
C20_LineCentres ==
    ModelInUse =>
        LET wavelength == atomic_transitions[CurrentRow].wavelength
            key        == TransitionMeanKey(profile)
        IN  /\ tolerance_kwarg = 0 => key \in profile.fixed
            /\ tolerance_kwarg # 0 =>
                  /\ key \notin profile.fixed
                  /\ key \in DOMAIN profile.bounds
                  /\ profile.bounds[key] =
                        << wavelength - Abs(tolerance_kwarg),
                           wavelength + Abs(tolerance_kwarg) >>
            /\ \A k \in 2 .. Len(profile.components) :
                  Param("mean", k - 1) \in profile.fixed

\* a compound model with two outlier components has been fitted under a
\* tolerance that is not 0
C20_Witness ==
    /\ fit_pc = "fitted"
    /\ tolerance_kwarg # 0
    /\ Len(profile.components) = 3
    /\ Param("mean", 0) \notin profile.fixed
    /\ Param("mean", 2) \in profile.fixed

\* C22: while a model is in use, that is after every _update_compound_model
\* and every fit, each parameter of every component, primary or outlier,
\* whose prefix is a key of the bounds mapping carries exactly the bound of
\* that key; and a call whose bounds mapping has the key "wavelength" or
\* "mean" sets up no profile, fits and writes no line, changes nothing in
\* the table, and can only end in ValueError.
C22_BoundsByPrefix ==
    /\ [](ModelInUse =>
            \A name \in ParamNames(Len(profile.components)) :
                name.prefix \in DOMAIN bounds_kwarg =>
                    /\ name \in DOMAIN profile.bounds
                    /\ profile.bounds[name] = bounds_kwarg[name.prefix])
    /\ []((fit_pc # "idle" /\ ({"wavelength", "mean"} \cap DOMAIN bounds_kwarg # {})) =>
            /\ fit_pc \in {"line", "raised"}
            /\ fit_pc = "raised" => fit_error = "ValueError"
            /\ profile = NoProfile
            /\ fit_written = {}
            /\ fit_k = 1)
    /\ [][({"wavelength", "mean"} \cap DOMAIN bounds_kwarg # {}) =>
            atomic_transitions' = atomic_transitions]_vars

\* a caller's mapping with the key "stddev" alone is on a model with an
\* outlier component: both stddevs carry its bound, no amplitude has one
C22_Witness ==
    /\ ModelInUse
    /\ DOMAIN bounds_kwarg = {"stddev"}
    /\ Len(profile.components) >= 2
    /\ profile.bounds[Param("stddev", 0)] = << 0, NarrowStddev >>
    /\ profile.bounds[Param("stddev", 1)] = << 0, NarrowStddev >>
    /\ Param("amplitude", 1) \notin DOMAIN profile.bounds

\* C21: in a compound model the stddev of every outlier component i is tied
\* to stddev_0 * mean_i / mean_0, with the centre of that same component i.
C21_StddevTiedToOwnCentre ==
    ModelInUse =>
        \A i \in 1 .. Len(profile.components) - 1 :
            /\ Param("stddev", i) \in DOMAIN profile.tied
            /\ TiedStddev(profile, Param("stddev", i)) =
                  Rat(Primary.stddev * profile.components[i + 1].mean, Primary.mean)

\* the transitions whose equivalent width is NaN (never measured, the fit
\* skipped) or not inside 5 < EW < 200
Unaccepted ==
    { i \in DOMAIN atomic_transitions :
        LET ew == atomic_transitions[i].equivalent_width
        IN  ew.nan \/ ew.num <= 5 * ew.den \/ ew.num >= 200 * ew.den }

\* the record table with other numbers in the rows of the unaccepted lines
Scrubbed(table) ==
    [i \in DOMAIN table |->
        IF i \in Unaccepted
        THEN [table[i] EXCEPT !.excitation_potential = 9,
                              !.equivalent_width = Num(50),
                              !.abundance = Num(7)]
        ELSE table[i]]

\* C24: a transition whose profile fit was skipped (equivalent width NaN) or
\* whose equivalent width is outside 5 < EW < 200 is not among the rows the
\* abundances are returned for, keeps abundance NaN in the record table, is
\* never flagged as an outlier, is in none of the masks of a diagnostics
\* pass, and the four diagnostics do not depend on its row.
C24_UnacceptedLinesTakeNoPart ==
    (rec # Unset) =>
        /\ \A i \in Unaccepted :
              /\ ~rec[i].is_filtered
              /\ rec[i].abundance.nan
              /\ ~rec[i].is_outlier
              /\ n_diagnostics >= 1 =>
                    i \notin use_lines \cup neutral_lines \cup ionised_lines
        /\ eq_pc = "branch" =>
              state = StateVector(Scrubbed(rec), use_lines, neutral_lines,
                          ionised_lines,
                          LinRegress(ExcitationOf(Scrubbed(rec)),
                                     AbundanceOf(Scrubbed(rec)), neutral_lines),
                          LinRegress(ReducedWidthOf(Scrubbed(rec)),
                                     AbundanceOf(Scrubbed(rec)), neutral_lines),
                          metallicity)

\* the refit after a flagging step flagged a line, on a table with a line
\* whose fit was skipped
C24_Witness ==
    /\ eq_pc = "branch"
    /\ n_diagnostics = 2
    /\ Outliers # {}
    /\ \E i \in Unaccepted : atomic_transitions[i].equivalent_width.nan

\* the refit has not yet applied the flags the flagging step wrote
FlagsNotYetApplied == eq_pc = "diagnostics" /\ outliers_removed

\* C25: from the first diagnostics pass on, the used set is the set of
\* filtered lines not flagged as outliers (between the flagging step and the
\* refit it is still the one the flags were computed from); the used set
\* never grows, so the refit uses a subset of the lines of the initial fit;
\* an outlier flag is set by the one flagging step only and never cleared.
C25_UsedSetShrinks ==
    /\ [](n_diagnostics >= 1 /\ ~FlagsNotYetApplied =>
            use_lines = { i \in DOMAIN rec : rec[i].is_filtered /\ ~rec[i].is_outlier })
    /\ [](n_diagnostics >= 1 =>
            use_lines \subseteq { i \in DOMAIN rec : rec[i].is_filtered })
    /\ [][n_diagnostics >= 1 => use_lines' \subseteq use_lines]_vars
    /\ [][rec # Unset =>
            /\ \A i \in DOMAIN rec : rec[i].is_outlier => rec'[i].is_outlier
            /\ (\E i \in DOMAIN rec : rec'[i].is_outlier # rec[i].is_outlier) =>
                  (n_flagging = 0 /\ n_flagging' = 1)]_vars

\* the refit used fewer lines than the initial fit: a line was flagged
C25_Witness ==
    /\ eq_pc = "returned"
    /\ n_diagnostics = 2
    /\ Outliers # {}
    /\ use_lines # {}
    /\ use_lines \cup Outliers = { i \in DOMAIN rec : rec[i].is_filtered }

\* C18: a transition is neutral when the fractional part of its species
\* code is 0 and ionised when it is greater than 0, and it is exactly one of
\* the two (26.0 neutral, 26.1 ionised); the masks equalibrium_state keeps
\* for the used lines are the ones the solver's objective computes from the
\* same table; and at every diagnostics pass of the rejection loop the
\* neutral and ionised used lines are disjoint and together the used lines.
C18_NeutralOrIonised ==
    /\ IsNeutral(260) /\ ~IsIonised(260)
    /\ IsIonised(261) /\ ~IsNeutral(261)
    /\ rec # Unset =>
          \A i \in DOMAIN rec : IsNeutral(rec[i].species) # IsIonised(rec[i].species)
    /\ n_diagnostics >= 1 =>
          /\ neutral_lines \cap ionised_lines = {}
          /\ neutral_lines \cup ionised_lines = use_lines
          /\ use_lines = UseLines(rec) =>
                /\ neutral_lines = NeutralMask(rec)
                /\ ionised_lines = IonisedMask(rec)

\* the second pass of the rejection loop: a line has been flagged, and
\* neutral and ionised lines are both left in use
C18_Witness ==
    /\ n_diagnostics = 2
    /\ outliers_removed
    /\ use_lines = UseLines(rec)
    /\ use_lines # DOMAIN rec
    /\ neutral_lines # {}
    /\ ionised_lines # {}

-----------------------------------------------------------------------------
(* science.py: the benchmark batch script *)

\* the longest benchmark list followed
MaxStars == 3

\* a row of benchmarks.csv, by what the loop body meets for it: whether glob
\* finds data files for the star (line 71), and whether model.initial_theta
\* returns for its spectra (line 85)
Benchmark == [files : BOOLEAN, initial_theta : {"returns", "raises"}]

BenchmarkLists == UNION { [1 .. n -> Benchmark] : n \in 1 .. MaxStars }

\* lines 66-68: the script has read the list and enters its loop
BatchInit ==
    /\ atomic_transitions = Unset
    /\ EqIdle
    /\ FitIdle
    /\ SolveIdle
    /\ LoadIdle
    /\ SamplingIdle
    /\ benchmarks \in BenchmarkLists
    /\ star = 1
    /\ started = {}
    /\ failed_star = 0
    /\ batch_pc = "loop"
    /\ batch_error = "none"
    /\ results_written = FALSE

\* the loop of line 68 has a benchmark left
AtBenchmark == batch_pc = "loop" /\ star <= Len(benchmarks)

\* lines 70-74: no data files for the star; `continue`
SkipBenchmark ==
    /\ AtBenchmark
    /\ ~benchmarks[star].files
    /\ star' = star + 1
    /\ UNCHANGED << atomic_transitions, eqVars, fitVars, solveVars, loadVars,
                    samplingVars,
                    benchmarks, started, failed_star, batch_pc, batch_error,
                    results_written >>

\* lines 76-84: the spectra are loaded and a model is constructed
LoadBenchmark ==
    /\ AtBenchmark
    /\ benchmarks[star].files
    /\ started' = started \cup {star}
    /\ batch_pc' = "initial_theta"
    /\ UNCHANGED << atomic_transitions, eqVars, fitVars, solveVars, loadVars,
                    samplingVars,
                    benchmarks, star, failed_star, batch_error, results_written >>

\* lines 85-86: the initial estimate is returned
InitialThetaReturns ==
    /\ batch_pc = "initial_theta"
    /\ benchmarks[star].initial_theta = "returns"
    /\ batch_pc' = "estimate"
    /\ UNCHANGED << atomic_transitions, eqVars, fitVars, solveVars, loadVars,
                    samplingVars,
                    benchmarks, star, started, failed_star, batch_error,
                    results_written >>

\* line 85: the initial estimate raises; the call is in no try block, so the
\* exception leaves the loop and the script
InitialThetaRaises ==
    /\ batch_pc = "initial_theta"
    /\ benchmarks[star].initial_theta = "raises"
    /\ failed_star' = star
    /\ batch_pc' = "aborted"
    /\ batch_error' = "initial_theta"
    /\ UNCHANGED << atomic_transitions, eqVars, fitVars, solveVars, loadVars,
                    samplingVars,
                    benchmarks, star, started, results_written >>

\* what leaves estimate_stellar_parameters: the NameError of `raise a` or of
\* `raise WTFError()`, or the ValueError of a regression on no line
EstimateErrors == {"NameError", "ValueError"}

\* lines 89-90: estimate_stellar_parameters has no return statement and ends
\* in a raise; the call is in no try block, so the exception leaves the loop
\* and the script, and lines 91-112 (results.append) are not reached
EstimateRaises ==
    /\ batch_pc = "estimate"
    /\ failed_star' = star
    /\ batch_pc' = "aborted"
    /\ batch_error' \in EstimateErrors
    /\ UNCHANGED << atomic_transitions, eqVars, fitVars, solveVars, loadVars,
                    samplingVars,
                    benchmarks, star, started, results_written >>

\* line 68: the list is exhausted
LoopEnds ==
    /\ batch_pc = "loop"
    /\ star > Len(benchmarks)
    /\ batch_pc' = "report"
    /\ UNCHANGED << atomic_transitions, eqVars, fitVars, solveVars, loadVars,
                    samplingVars,
                    benchmarks, star, started, failed_star, batch_error,
                    results_written >>

\* lines 115-203: the tables and the figure are made and results.md is written
WriteResults ==
    /\ batch_pc = "report"
    /\ batch_pc' = "done"
    /\ results_written' = TRUE
    /\ UNCHANGED << atomic_transitions, eqVars, fitVars, solveVars, loadVars,
                    samplingVars,
                    benchmarks, star, started, failed_star, batch_error >>

\* lines 150-195: making the table or the figure raises, or the handler of
\* line 192 reads e.errno of an exception that has none
ReportRaises ==
    /\ batch_pc = "report"
    /\ batch_pc' = "aborted"
    /\ batch_error' = "report"
    /\ UNCHANGED << atomic_transitions, eqVars, fitVars, solveVars, loadVars,
                    samplingVars,
                    benchmarks, star, started, failed_star, results_written >>

BatchNext ==
    \/ SkipBenchmark
    \/ LoadBenchmark
    \/ InitialThetaReturns
    \/ InitialThetaRaises
    \/ EstimateRaises
    \/ LoopEnds
    \/ WriteResults
    \/ ReportRaises

SpecBatch == BatchInit /\ [][BatchNext]_vars

\* C17: a failure while analysing one star does not stop the run: the script
\* is not left by the star's exception; it goes on to the later stars and to
\* writing the results file.
C17_FailureDoesNotStopRun ==
    failed_star # 0 => batch_pc # "aborted"


-----------------------------------------------------------------------------
(* The solver's objective and the diagnostics of equalibrium_state *)

\* lines 839-873 of equalibrium_state on the lines and abundances the solver
\* evaluated: masks, regressions and the state vector
EvaluatorState(table, abundances, mh) ==
    LET use     == UseLines(table)
        neutral == { i \in DOMAIN table : IsNeutral(table[i].species) } \cap use
        ionised == (DOMAIN table \ { i \in DOMAIN table : IsNeutral(table[i].species) })
                       \cap use
        with    == [i \in DOMAIN table |->
                      [table[i] EXCEPT !.abundance =
                          IF i \in use THEN Num(abundances[i]) ELSE NaN]]
    IN  StateVector(with, use, neutral, ionised,
                    LinRegress(ExcitationOf(with), AbundanceOf(with), neutral),
                    LinRegress(ReducedWidthOf(with), AbundanceOf(with), neutral),
                    mh)

\* the objective has returned a state for the abundances of the trial point
Evaluated ==
    /\ solve_pc \in {"fsolve", "finished"}
    /\ nfev >= 1
    /\ ~abundance_failed

\* C23 as claimed: for the same used lines and abundances the objective
\* returns the four diagnostics of equalibrium_state, component by component.
C23_AsClaimed ==
    Evaluated =>
        LET diagnostics == EvaluatorState(transitions_table, trial_abundances,
                                          theta.metallicity)
        IN  \A k \in 1 .. 4 : RatEq(objective[k], diagnostics[k])

\* C23: for the same used lines and abundances the objective returns the
\* excitation slope, the ionisation offset and the line-strength slope of
\* equalibrium_state, and one tenth of its abundance offset; so the objective
\* is the zero vector exactly when the four diagnostics are.
C23_ObjectiveIsScaledDiagnostics ==
    Evaluated =>
        LET diagnostics == EvaluatorState(transitions_table, trial_abundances,
                                          theta.metallicity)
        IN  /\ \A k \in {1, 2, 4} : objective[k] = diagnostics[k]
            /\ objective[3] = Rat(diagnostics[3].num, 10 * diagnostics[3].den)
            /\ (\A k \in 1 .. 4 : objective[k].num = 0)
                  <=> (\A k \in 1 .. 4 : diagnostics[k].num = 0)

\* the objective returned a state whose abundance offset is not zero
C23_Witness ==
    /\ Evaluated
    /\ objective[3].num # 0
    /\ objective[1].num # 0


-----------------------------------------------------------------------------
(* minimum_pixel_sampling *)

\* the most channels a data set followed has
MaxChannels == 2

\* disp arrays of a channel (Angstrom), ascending
DispArrays ==
    { << 5000, 5010, 5020 >>, << 5010, 5012, 5016, 5020 >>, << 5030, 5031 >> }

SamplingData == UNION { [1 .. n -> DispArrays] : n \in 1 .. MaxChannels }

\* wavelengths asked for: below, at the ends of, inside and between channels
SamplingWavelengths == {4990, 5000, 5005, 5010, 5011, 5020, 5025, 5030, 5031}

\* lines 1030-1032
SamplingInit ==
    /\ atomic_transitions = Unset
    /\ EqIdle
    /\ FitIdle
    /\ SolveIdle
    /\ LoadIdle
    /\ BatchIdle
    /\ sampling_data \in SamplingData
    /\ sampling_wavelength \in SamplingWavelengths
    /\ sampling_i = 0
    /\ pixel_size = NaN
    /\ channel_indices = << >>
    /\ sampling_pc = "loop"
    /\ sampling_error = "none"

\* line 1033: spectrum.disp[-1] >= wavelength >= spectrum.disp[0]
InChannel(disp, w) == disp[Len(disp)] >= w /\ w >= disp[1]

\* line 1036: disp.searchsorted(wavelength), the number of pixels below it
SearchSorted(disp, w) == Cardinality({ k \in DOMAIN disp : disp[k] < w })

\* line 1038: np.diff(disp), indexed from 0
Diff(disp) == [k \in 0 .. Len(disp) - 2 |-> disp[k + 2] - disp[k + 1]]

\* the loop of line 1032 has a channel left; i counts from 0
AtChannel == sampling_pc = "loop" /\ sampling_i < Len(sampling_data)

CurrentDisp == sampling_data[sampling_i + 1]

\* line 1033: the wavelength is not in the channel
ChannelSkipped ==
    /\ AtChannel
    /\ ~InChannel(CurrentDisp, sampling_wavelength)
    /\ sampling_i' = sampling_i + 1
    /\ UNCHANGED << atomic_transitions, eqVars, fitVars, solveVars, loadVars,
                    batchVars, sampling_data, sampling_wavelength, pixel_size,
                    channel_indices, sampling_pc, sampling_error >>

\* lines 1033-1040: the channel is recorded and the pixel size at the
\* wavelength taken if it is the smaller one
ChannelSampled ==
    /\ AtChannel
    /\ InChannel(CurrentDisp, sampling_wavelength)
    /\ LET index == SearchSorted(CurrentDisp, sampling_wavelength)
           diff  == Diff(CurrentDisp)
       IN  /\ index \in DOMAIN diff
           /\ pixel_size' =
                 IF RatGt(pixel_size, Num(diff[index])) \/ ~IsFinite(pixel_size)
                 THEN Num(diff[index])
                 ELSE pixel_size
    /\ channel_indices' = Append(channel_indices, sampling_i)
    /\ sampling_i' = sampling_i + 1
    /\ UNCHANGED << atomic_transitions, eqVars, fitVars, solveVars, loadVars,
                    batchVars, sampling_data, sampling_wavelength, sampling_pc,
                    sampling_error >>

\* lines 1034-1039: the wavelength is above the last but one pixel of the
\* channel, searchsorted gives the index of the last pixel (or past it), and
\* diff, one element shorter than disp, has no such element: IndexError
DiffIndexError ==
    /\ AtChannel
    /\ InChannel(CurrentDisp, sampling_wavelength)
    /\ SearchSorted(CurrentDisp, sampling_wavelength) \notin DOMAIN Diff(CurrentDisp)
    /\ channel_indices' = Append(channel_indices, sampling_i)
    /\ sampling_pc' = "raised"
    /\ sampling_error' = "IndexError"
    /\ UNCHANGED << atomic_transitions, eqVars, fitVars, solveVars, loadVars,
                    batchVars, sampling_data, sampling_wavelength, sampling_i,
                    pixel_size >>

\* the loop of line 1032 is over
LoopOver == sampling_pc = "loop" /\ sampling_i = Len(sampling_data)

\* lines 1042-1044
WavelengthNotFound ==
    /\ LoopOver
    /\ Len(channel_indices) = 0 /\ ~IsFinite(pixel_size)
    /\ sampling_pc' = "raised"
    /\ sampling_error' = "ValueError"
    /\ UNCHANGED << atomic_transitions, eqVars, fitVars, solveVars, loadVars,
                    batchVars, sampling_data, sampling_wavelength, sampling_i,
                    pixel_size, channel_indices >>

\* line 1046: return (pixel_size, channel_indices)
ReturnSampling ==
    /\ LoopOver
    /\ ~(Len(channel_indices) = 0 /\ ~IsFinite(pixel_size))
    /\ sampling_pc' = "returned"
    /\ UNCHANGED << atomic_transitions, eqVars, fitVars, solveVars, loadVars,
                    batchVars, sampling_data, sampling_wavelength, sampling_i,
                    pixel_size, channel_indices, sampling_error >>

SamplingNext ==
    \/ ChannelSkipped
    \/ ChannelSampled
    \/ DiffIndexError
    \/ WavelengthNotFound
    \/ ReturnSampling

SpecSampling == SamplingInit /\ [][SamplingNext]_vars

\* the channels, numbered from 0, whose inclusive range holds the wavelength
Containing ==
    { i \in 0 .. Len(sampling_data) - 1 :
        /\ sampling_data[i + 1][1] <= sampling_wavelength
        /\ sampling_wavelength <= sampling_data[i + 1][Len(sampling_data[i + 1])] }

\* the pixel spacings of a channel next to the wavelength: of the pixel
\* interval it lies in, or of the intervals on either side of a pixel it is on
SpacingsAt(disp, w) ==
    { disp[k + 1] - disp[k] : k \in { j \in 1 .. Len(disp) - 1 :
                                          disp[j] <= w /\ w <= disp[j + 1] } }

\* C26: minimum_pixel_sampling ends in ValueError if and only if the
\* wavelength is in no channel's inclusive range; for a wavelength inside
\* some channel's range, the ends included, it returns the channels holding
\* it, in order, and a pixel spacing at the wavelength that is the smallest
\* among those channels.
C26_SamplingContract ==
    sampling_pc \in {"returned", "raised"} =>
        IF Containing = {}
        THEN sampling_pc = "raised" /\ sampling_error = "ValueError"
        ELSE /\ sampling_pc = "returned"
             /\ Len(channel_indices) = Cardinality(Containing)
             /\ \A k \in DOMAIN channel_indices :
                   /\ channel_indices[k] \in Containing
                   /\ \A l \in DOMAIN channel_indices :
                         k < l => channel_indices[k] < channel_indices[l]
             /\ IsFinite(pixel_size)
             /\ \A i \in Containing :
                   \E d \in SpacingsAt(sampling_data[i + 1], sampling_wavelength) :
                       pixel_size.num <= d
             /\ \E i \in Containing :
                   pixel_size.num \in SpacingsAt(sampling_data[i + 1],
                                                 sampling_wavelength)

====
